---- MODULE Spec2Model ----
(***************************************************************************)
(* State-machine model of the AI Regulatory Scout core:                    *)
(*   - MasterAgent (routing, clarification, dispatch, summary, follow-ups) *)
(*   - DocumentProcessor (chunking, embedding, persistence, indexing)      *)
(* Generation, embedding and storage providers are the environment: their  *)
(* replies are drawn from small sets.                                      *)
(***************************************************************************)
EXTENDS Integers, Sequences, FiniteSets, TLC

VARIABLES
    pc,              \* position of processQueryWithRequest
    request,         \* the QueryRequest being processed
    routing,         \* RoutingDecision returned by routeQuery
    agents,          \* one promise per selected jurisdiction (dispatch order)
    responses,       \* agentResponses returned by queryJurisdictionAgents
    masterSummary,   \* Undefined or Some(text)
    result,          \* MasterAgentResponse returned to the caller
    error,           \* which awaited call made processQueryWithRequest throw
    calls,           \* generation calls issued so far, per purpose
    classifierReply, \* what the classifier call produced (NoReply: not called)
    followUp,        \* what the provider would answer to a follow-up request
    ing,             \* position and locals of processDocument
    documents,       \* storage: persisted Document rows, in creation order
    nextId,          \* storage: next serial id
    vectorStore,     \* VectorStore.documents / embeddings: ids registered
    batch,           \* position and promises of processMultipleDocuments
    search,          \* a call of VectorStore.searchSimilar
    scoring,         \* calls of JurisdictionAgent.calculateRelevance
    ag,              \* position and locals of JurisdictionAgent.processQuery
    idx,             \* documents table, VectorStore ids and the warm-up task
    sess,            \* agent_sessions table and the requests updating it
    conv             \* conversations, messages and a POST /api/query request

queryVars == <<pc, request, routing, agents, responses, masterSummary,
               result, error, calls, classifierReply, followUp>>
ingestVars == <<ing, documents, nextId, vectorStore>>
auxVars == <<batch, search, scoring, ag>>
routeVars == <<idx, sess, conv>>
vars == <<pc, request, routing, agents, responses, masterSummary,
          result, error, calls, classifierReply, followUp,
          ing, documents, nextId, vectorStore, batch, search, scoring, ag,
          idx, sess, conv>>

----------------------------------------------------------------------------
(* Bounds of the model *)

MaxSel == 3      \* longest jurisdictions list of a request
MaxReply == 2    \* longest selectedJurisdictions array of a classifier reply

----------------------------------------------------------------------------
(* Generic helpers *)

Range(s) == {s[i] : i \in 1..Len(s)}

SeqsUpTo(S, n) == UNION {[1..k -> S] : k \in 0..n}

Undefined == <<>>
Some(x) == <<x>>

RECURSIVE FilterSeq(_, _)
FilterSeq(s, keep) ==
    IF s = <<>> THEN <<>>
    ELSE IF Head(s) \in keep THEN <<Head(s)>> \o FilterSeq(Tail(s), keep)
         ELSE FilterSeq(Tail(s), keep)

----------------------------------------------------------------------------
(* The agent catalog: keys of the jurisdictionAgents map, insertion order *)

Catalog == <<"us-federal", "california", "colorado", "eu", "uk", "germany">>
CatalogSet == Range(Catalog)

AgentName(j) ==
    CASE j = "us-federal" -> "US Federal Agent"
      [] j = "california" -> "California Agent"
      [] j = "colorado"   -> "Colorado Agent"
      [] j = "eu"         -> "European Union Agent"
      [] j = "uk"         -> "United Kingdom Agent"
      [] j = "germany"    -> "Germany Agent"

Sentinel == "CLARIFICATION_NEEDED"
DefaultPair == <<"us-federal", "eu">>

RationaleExplicit == "Jurisdictions explicitly specified by user"
RationaleAll == "Auto-routing disabled, querying all jurisdictions"
RationaleFallback == "Auto-routing failed, using default jurisdictions"
RationaleClarify == "Query requires jurisdiction clarification"
RationaleAuto == "Auto-routed based on query analysis"

----------------------------------------------------------------------------
(* Inputs *)

Queries == {"Compare EU and US AI regulations", "What are the compliance requirements?"}

\* ids a caller or the classifier may name: two catalog ids, the sentinel,
\* and an id no agent is registered for
InputIds == {"eu", "uk", Sentinel, "mars"}

Requests ==
    {r \in [query : Queries, hasJ : BOOLEAN,
            jurisdictions : SeqsUpTo(InputIds, MaxSel), autoRoute : BOOLEAN] :
        ~r.hasJ => r.jurisdictions = <<>>}

\* What the classifier call produces: a provider error, text that is not
\* JSON, JSON without a selectedJurisdictions field, JSON whose field is not
\* an array, or JSON with an array (rationale "" stands for absent/empty).
ClassifierReplies ==
    [kind : {"error", "invalid_json", "no_field", "not_array"},
     sel : {<<>>}, rationale : {""}]
    \cup
    [kind : {"array"}, sel : SeqsUpTo(InputIds, MaxReply),
     rationale : {"", "because"}]

\* What a plain generation call produces
TextReplies == [ok : {TRUE}, text : {"", "text"}] \cup [ok : {FALSE}, text : {""}]

\* What an agent's generation call produces
AgentReplies == [ok : {TRUE}, text : {"answer"}] \cup [ok : {FALSE}, text : {""}]

\* What the provider would answer to the follow-up question request
FollowUpReplies == {"valid5", "invalid_json", "array4", "error"}

----------------------------------------------------------------------------
(* MasterAgent.routeQuery and MasterAgent.autoRouteQuery *)

\* autoRouteQuery without the catalog filter
autoRouteQueryUnfiltered(reply) ==
    IF reply.kind # "array"
    THEN [selectedJurisdictions |-> DefaultPair, rationale |-> RationaleFallback]
    ELSE IF Sentinel \in Range(reply.sel)
    THEN [selectedJurisdictions |-> <<Sentinel>>,
          rationale |-> IF reply.rationale # "" THEN reply.rationale
                        ELSE RationaleClarify]
    ELSE IF Len(reply.sel) = 0
    THEN [selectedJurisdictions |-> DefaultPair, rationale |-> RationaleFallback]
    ELSE [selectedJurisdictions |-> reply.sel,
          rationale |-> IF reply.rationale # "" THEN reply.rationale
                        ELSE RationaleAuto]

autoRouteQuery(reply) ==
    IF reply.kind # "array"
    THEN [selectedJurisdictions |-> DefaultPair, rationale |-> RationaleFallback]
    ELSE IF Sentinel \in Range(reply.sel)
    THEN [selectedJurisdictions |-> <<Sentinel>>,
          rationale |-> IF reply.rationale # "" THEN reply.rationale
                        ELSE RationaleClarify]
    ELSE LET validJurisdictions == FilterSeq(reply.sel, CatalogSet)
         IN IF Len(validJurisdictions) = 0
            THEN [selectedJurisdictions |-> DefaultPair,
                  rationale |-> RationaleFallback]
            ELSE [selectedJurisdictions |-> validJurisdictions,
                  rationale |-> IF reply.rationale # "" THEN reply.rationale
                                ELSE RationaleAuto]

UsesClassifier(req) ==
    ~(req.hasJ /\ Len(req.jurisdictions) > 0) /\ req.autoRoute

\* routeQuery checking the caller's ids against the catalog
routeQueryValidated(req, reply) ==
    IF req.hasJ /\ Len(req.jurisdictions) > 0
    THEN [selectedJurisdictions |-> FilterSeq(req.jurisdictions, CatalogSet),
          rationale |-> RationaleExplicit, autoRouted |-> FALSE]
    ELSE IF ~req.autoRoute
    THEN [selectedJurisdictions |-> Catalog,
          rationale |-> RationaleAll, autoRouted |-> FALSE]
    ELSE LET d == autoRouteQuery(reply)
         IN [selectedJurisdictions |-> d.selectedJurisdictions,
             rationale |-> d.rationale, autoRouted |-> TRUE]

\* routeQuery defaulting to the four jurisdictions the routing prompt lists
routeQueryPromptList(req, reply) ==
    IF req.hasJ /\ Len(req.jurisdictions) > 0
    THEN [selectedJurisdictions |-> req.jurisdictions,
          rationale |-> RationaleExplicit, autoRouted |-> FALSE]
    ELSE IF ~req.autoRoute
    THEN [selectedJurisdictions |-> <<"us-federal", "california", "eu", "uk">>,
          rationale |-> RationaleAll, autoRouted |-> FALSE]
    ELSE LET d == autoRouteQuery(reply)
         IN [selectedJurisdictions |-> d.selectedJurisdictions,
             rationale |-> d.rationale, autoRouted |-> TRUE]

routeQuery(req, reply) ==
    IF req.hasJ /\ Len(req.jurisdictions) > 0
    THEN [selectedJurisdictions |-> req.jurisdictions,
          rationale |-> RationaleExplicit, autoRouted |-> FALSE]
    ELSE IF ~req.autoRoute
    THEN [selectedJurisdictions |-> Catalog,
          rationale |-> RationaleAll, autoRouted |-> FALSE]
    ELSE LET d == autoRouteQuery(reply)
         IN [selectedJurisdictions |-> d.selectedJurisdictions,
             rationale |-> d.rationale, autoRouted |-> TRUE]

----------------------------------------------------------------------------
(* JurisdictionAgent.processQuery as seen by the orchestrator *)

\* sources an agent reports: one per document retrieval returned for its
\* jurisdiction (the model's storage holds one eu document and no other)
StoredSources(j) ==
    IF j = "eu" THEN <<[title |-> "EU AI Act", relevance |-> [h |-> 30, e |-> 0],
                      tokens |-> 25]>>
    ELSE <<>>

Settled(a) == a.status \in {"fulfilled", "rejected"}

----------------------------------------------------------------------------
(* MasterAgent.queryJurisdictionAgents: what it returns once every promise
   of Promise.allSettled has settled *)

RECURSIVE successfulResponses(_)
successfulResponses(ags) ==
    IF ags = <<>> THEN <<>>
    ELSE IF Head(ags).status = "fulfilled"
         THEN <<[agentId |-> Head(ags).id,
                 agentName |-> AgentName(Head(ags).id),
                 content |-> Head(ags).content,
                 sources |-> StoredSources(Head(ags).id)]>>
              \o successfulResponses(Tail(ags))
         ELSE successfulResponses(Tail(ags))

\* queryJurisdictionAgents awaiting with Promise.all: one rejection rejects all
queryJurisdictionAgentsFailFast(ags) ==
    [threw |-> \E i \in 1..Len(ags) : ags[i].status = "rejected",
     value |-> successfulResponses(ags)]

\* queryJurisdictionAgents throwing when no agent succeeded
queryJurisdictionAgentsRequireOne(ags) ==
    [threw |-> successfulResponses(ags) = <<>>,
     value |-> successfulResponses(ags)]

\* queryJurisdictionAgents collecting each response when its agent completes:
\* an agent that completed before one selected ahead of it comes first
queryJurisdictionAgentsAsCompleted(ags) ==
    [threw |-> FALSE,
     value |-> successfulResponses(SelectSeq(ags, LAMBDA a : a.overtook))
               \o successfulResponses(SelectSeq(ags, LAMBDA a : ~a.overtook))]

queryJurisdictionAgents(ags) ==
    [threw |-> FALSE, value |-> successfulResponses(ags)]

----------------------------------------------------------------------------
(* MasterAgent.generateSuggestedQuestions: returns the fixed list before any
   generation call is made; the provider's reply is never consulted *)

TestQuestions ==
    <<"What are the specific compliance requirements?",
      "What penalties apply for non-compliance?",
      "How do implementation timelines work?",
      "What technical standards are required?",
      "Are there exemptions available?">>

\* generateSuggestedQuestions returning whatever array the provider sent
generateSuggestedQuestionsParsed(originalQuery, agentResponses, jurisdictions, reply) ==
    CASE reply = "valid5" -> <<"q1", "q2", "q3", "q4", "q5">>
      [] reply = "array4" -> <<"q1", "q2", "q3", "q4">>
      [] OTHER -> TestQuestions

generateSuggestedQuestions(originalQuery, agentResponses, jurisdictions, reply) ==
    TestQuestions

----------------------------------------------------------------------------
(* Initial state *)

NoRequest == [query |-> "", hasJ |-> FALSE, jurisdictions |-> <<>>, autoRoute |-> FALSE]
NoDecision == [selectedJurisdictions |-> <<>>, rationale |-> "", autoRouted |-> FALSE]
NoReply == [kind |-> "error", sel |-> <<>>, rationale |-> ""]
NoResult == [none |-> TRUE]
NoCalls == [classifier |-> 0, clarify |-> 0, agent |-> 0, summary |-> 0, suggest |-> 0]

QueryInit ==
    /\ pc = "idle"
    /\ request = NoRequest
    /\ routing = NoDecision
    /\ agents = <<>>
    /\ responses = <<>>
    /\ masterSummary = Undefined
    /\ result = NoResult
    /\ error = "none"
    /\ calls = NoCalls
    /\ classifierReply = NoReply
    /\ followUp = "none"

----------------------------------------------------------------------------
(* processQueryWithRequest, one action per await *)

\* processQueryWithRequest runs up to its first await: routeQuery returns a
\* decision at once, or autoRouteQuery issues the classifier call, which is
\* pending from then on
ReceiveQuery(req) ==
    /\ pc = "idle"
    /\ pc' = "route"
    /\ request' = req
    /\ calls' = [calls EXCEPT !.classifier =
                    IF UsesClassifier(req) THEN @ + 1 ELSE @]
    /\ UNCHANGED <<routeVars, ingestVars, auxVars, classifierReply>>
    /\ UNCHANGED <<routing, agents, responses, masterSummary, result, error,
                   followUp>>

\* routeQuery, first branch: the request names jurisdictions
RouteExplicit ==
    /\ pc = "route"
    /\ request.hasJ /\ Len(request.jurisdictions) > 0
    /\ routing' = routeQuery(request, NoReply)
    /\ pc' = "routed"
    /\ UNCHANGED <<routeVars, ingestVars, auxVars, classifierReply>>
    /\ UNCHANGED <<request, agents, responses, masterSummary, result, error,
                   calls, followUp>>

\* routeQuery, second branch: auto-routing disabled
RouteAll ==
    /\ pc = "route"
    /\ ~(request.hasJ /\ Len(request.jurisdictions) > 0)
    /\ ~request.autoRoute
    /\ routing' = routeQuery(request, NoReply)
    /\ pc' = "routed"
    /\ UNCHANGED <<routeVars, ingestVars, auxVars, classifierReply>>
    /\ UNCHANGED <<request, agents, responses, masterSummary, result, error,
                   calls, followUp>>

\* routeQuery, third branch: the pending classifier call settles and
\* autoRouteQuery parses its reply
RouteAuto(reply) ==
    /\ pc = "route"
    /\ ~(request.hasJ /\ Len(request.jurisdictions) > 0)
    /\ request.autoRoute
    /\ routing' = routeQuery(request, reply)
    /\ classifierReply' = reply
    /\ pc' = "routed"
    /\ UNCHANGED <<routeVars, ingestVars, auxVars>>
    /\ UNCHANGED <<request, agents, responses, masterSummary, result, error,
                   calls, followUp>>

\* the clarification test as equality with the one-element selection
NeedsClarificationExact(decision) == decision.selectedJurisdictions = <<Sentinel>>

NeedsClarification(decision) == Sentinel \in Range(decision.selectedJurisdictions)

\* the clarification branch: issue the clarification generation call
Clarify ==
    /\ pc = "routed"
    /\ NeedsClarification(routing)
    /\ calls' = [calls EXCEPT !.clarify = @ + 1]
    /\ pc' = "clarify"
    /\ UNCHANGED <<routeVars, ingestVars, auxVars, classifierReply>>
    /\ UNCHANGED <<request, routing, agents, responses, masterSummary, result,
                   error, followUp>>

ClarificationResult(text, decision) ==
    [responses |-> <<[agentId |-> "master", agentName |-> "Master Agent",
                      content |-> text, sources |-> <<>>]>>,
     masterSummary |-> Undefined,
     routingInfo |-> [selectedJurisdictions |-> <<Sentinel>>,
                      rationale |-> decision.rationale,
                      autoRouted |-> TRUE]]

ClarifyReturn(reply) ==
    /\ pc = "clarify"
    /\ IF reply.ok
       THEN /\ result' = ClarificationResult(reply.text, routing)
            /\ pc' = "done"
            /\ error' = error
       ELSE /\ pc' = "threw"
            /\ error' = "clarify"
            /\ result' = result
    /\ UNCHANGED <<routeVars, ingestVars, auxVars, classifierReply>>
    /\ UNCHANGED <<request, routing, agents, responses, masterSummary, calls,
                   followUp>>

\* queryJurisdictionAgents: every map callback runs up to its first await,
\* a jurisdiction without an agent rejects at once
StartAgent(j) ==
    IF j \in CatalogSet
    THEN [id |-> j, status |-> "retrieving", content |-> "", overtook |-> FALSE]
    ELSE [id |-> j, status |-> "rejected", content |-> "", overtook |-> FALSE]

Dispatch ==
    /\ pc = "routed"
    /\ ~NeedsClarification(routing)
    /\ agents' = [i \in 1..Len(routing.selectedJurisdictions) |->
                     StartAgent(routing.selectedJurisdictions[i])]
    /\ calls' = [calls EXCEPT !.agent =
                    @ + Cardinality({i \in 1..Len(routing.selectedJurisdictions) :
                                       routing.selectedJurisdictions[i] \in CatalogSet})]
    /\ pc' = "dispatch"
    /\ UNCHANGED <<routeVars, ingestVars, auxVars, classifierReply>>
    /\ UNCHANGED <<request, routing, responses, masterSummary, result, error,
                   followUp>>

\* whether the promise of agent i settles while one selected before it is
\* still pending
Overtakes(ags, i) == \E k \in 1..(i - 1) : ~Settled(ags[k])

\* an agent's retrieval (storage.getDocumentsByJurisdiction) settles
AgentRetrieve(i, ok) ==
    /\ pc = "dispatch"
    /\ i \in 1..Len(agents)
    /\ agents[i].status = "retrieving"
    /\ agents' = [agents EXCEPT
                    ![i].status = IF ok THEN "generating" ELSE "rejected",
                    ![i].overtook = ~ok /\ Overtakes(agents, i)]
    /\ UNCHANGED <<routeVars, ingestVars, auxVars, classifierReply>>
    /\ UNCHANGED <<pc, request, routing, responses, masterSummary, result,
                   error, calls, followUp>>

\* an agent's generation call settles
AgentGenerate(i, reply) ==
    /\ pc = "dispatch"
    /\ i \in 1..Len(agents)
    /\ agents[i].status = "generating"
    /\ agents' = [agents EXCEPT
                    ![i].status = IF reply.ok THEN "fulfilled" ELSE "rejected",
                    ![i].content = IF reply.ok THEN reply.text ELSE "",
                    ![i].overtook = Overtakes(agents, i)]
    /\ UNCHANGED <<routeVars, ingestVars, auxVars, classifierReply>>
    /\ UNCHANGED <<pc, request, routing, responses, masterSummary, result,
                   error, calls, followUp>>

\* Settle deciding on the summary by the number of selected jurisdictions
SettleCountingSelected ==
    /\ pc = "dispatch"
    /\ \A i \in 1..Len(agents) : Settled(agents[i])
    /\ responses' = queryJurisdictionAgents(agents).value
    /\ error' = error
    /\ IF Len(routing.selectedJurisdictions) > 1
       THEN /\ pc' = "summary"
            /\ calls' = [calls EXCEPT !.summary = @ + 1]
       ELSE /\ pc' = "suggest"
            /\ calls' = calls
    /\ UNCHANGED <<routeVars, ingestVars, auxVars, classifierReply>>
    /\ UNCHANGED <<request, routing, agents, masterSummary, result, followUp>>

\* Settle resolving as soon as one promise has settled
SettleOnFirst ==
    /\ pc = "dispatch"
    /\ \E i \in 1..Len(agents) : Settled(agents[i])
    /\ responses' = queryJurisdictionAgents(agents).value
    /\ error' = error
    /\ IF Len(responses') > 1
       THEN /\ pc' = "summary"
            /\ calls' = [calls EXCEPT !.summary = @ + 1]
       ELSE /\ pc' = "suggest"
            /\ calls' = calls
    /\ UNCHANGED <<routeVars, ingestVars, auxVars, classifierReply>>
    /\ UNCHANGED <<request, routing, agents, masterSummary, result, followUp>>

\* Settle giving up on the agents that have not settled when a timer fires
SettleOnTimeout ==
    /\ pc = "dispatch"
    /\ responses' = queryJurisdictionAgents(agents).value
    /\ error' = error
    /\ IF Len(responses') > 1
       THEN /\ pc' = "summary"
            /\ calls' = [calls EXCEPT !.summary = @ + 1]
       ELSE /\ pc' = "suggest"
            /\ calls' = calls
    /\ UNCHANGED <<routeVars, ingestVars, auxVars, classifierReply>>
    /\ UNCHANGED <<request, routing, agents, masterSummary, result, followUp>>

\* Promise.allSettled resolves; the summary call is issued when more than
\* one response came back
Settle ==
    /\ pc = "dispatch"
    /\ \A i \in 1..Len(agents) : Settled(agents[i])
    /\ LET r == queryJurisdictionAgents(agents)
       IN IF r.threw
          THEN /\ pc' = "threw"
               /\ error' = "dispatch"
               /\ UNCHANGED <<responses, calls>>
          ELSE /\ responses' = r.value
               /\ error' = error
               /\ IF Len(r.value) > 1
                  THEN /\ pc' = "summary"
                       /\ calls' = [calls EXCEPT !.summary = @ + 1]
                  ELSE /\ pc' = "suggest"
                       /\ calls' = calls
    /\ UNCHANGED <<routeVars, ingestVars, auxVars, classifierReply>>
    /\ UNCHANGED <<request, routing, agents, masterSummary, result, followUp>>

\* generateMasterSummary returns or throws
SummaryReturn(reply) ==
    /\ pc = "summary"
    /\ IF reply.ok
       THEN /\ masterSummary' = Some(reply.text)
            /\ pc' = "suggest"
            /\ error' = error
       ELSE /\ pc' = "threw"
            /\ error' = "summary"
            /\ masterSummary' = masterSummary
    /\ UNCHANGED <<routeVars, ingestVars, auxVars, classifierReply>>
    /\ UNCHANGED <<request, routing, agents, responses, result, calls, followUp>>

\* generateSuggestedQuestions and the return of the result
Respond(reply) ==
    /\ pc = "suggest"
    /\ followUp' = reply
    /\ result' = [responses |-> responses,
                  masterSummary |-> masterSummary,
                  routingInfo |-> routing,
                  suggestedQuestions |->
                      generateSuggestedQuestions(request.query, responses,
                          routing.selectedJurisdictions, reply)]
    /\ pc' = "done"
    /\ UNCHANGED <<routeVars, ingestVars, auxVars, classifierReply>>
    /\ UNCHANGED <<request, routing, agents, responses, masterSummary, error, calls>>

----------------------------------------------------------------------------
(* Text: a string is a sequence of runs, each n >= 1 characters of one kind:
   "txt" (neither whitespace nor a sentence terminator), "sp" (whitespace),
   "dot" (full stops), "bang" (! or ?); "dot" and "bang" runs are the
   sentence terminators *)

Terminators == {"dot", "bang"}

Run(k, n) == [k |-> k, n |-> n]

RECURSIVE StrLen(_)
StrLen(runs) == IF runs = <<>> THEN 0 ELSE Head(runs).n + StrLen(Tail(runs))

\* String.prototype.trim
RECURSIVE trimStart(_)
trimStart(runs) ==
    IF runs # <<>> /\ Head(runs).k = "sp" THEN trimStart(Tail(runs)) ELSE runs

RECURSIVE trimEnd(_)
trimEnd(runs) ==
    IF runs # <<>> /\ runs[Len(runs)].k = "sp"
    THEN trimEnd(SubSeq(runs, 1, Len(runs) - 1))
    ELSE runs

trim(runs) == trimEnd(trimStart(runs))

\* text.split(/[.!?]+/): the pieces between terminator runs (two adjacent
\* terminator runs leave an empty piece, which the filter below drops)
RECURSIVE splitSentences(_, _)
splitSentences(runs, piece) ==
    IF runs = <<>> THEN <<piece>>
    ELSE IF Head(runs).k \in Terminators
         THEN <<piece>> \o splitSentences(Tail(runs), <<>>)
         ELSE splitSentences(Tail(runs), Append(piece, Head(runs)))

RECURSIVE nonBlank(_)
nonBlank(pieces) ==
    IF pieces = <<>> THEN <<>>
    ELSE IF StrLen(trim(Head(pieces))) > 0
         THEN <<Head(pieces)>> \o nonBlank(Tail(pieces))
         ELSE nonBlank(Tail(pieces))

\* text.slice(0, n) and text.slice(n)
RECURSIVE takeChars(_, _)
takeChars(runs, n) ==
    IF n <= 0 \/ runs = <<>> THEN <<>>
    ELSE IF Head(runs).n <= n
         THEN <<Head(runs)>> \o takeChars(Tail(runs), n - Head(runs).n)
         ELSE <<Run(Head(runs).k, n)>>

RECURSIVE dropChars(_, _)
dropChars(runs, n) ==
    IF n <= 0 \/ runs = <<>> THEN runs
    ELSE IF Head(runs).n <= n
         THEN dropChars(Tail(runs), n - Head(runs).n)
         ELSE <<Run(Head(runs).k, Head(runs).n - n)>> \o Tail(runs)

----------------------------------------------------------------------------
(* DocumentProcessor.chunkText *)

TokenLimit == 7000       \* approximateTokens above which a document is split
CharsPerToken == 4
ChunkChars == 6000       \* maxChars passed to chunkText

RECURSIVE accumulate(_, _, _, _)
accumulate(sentences, currentChunk, chunks, maxChars) ==
    IF sentences = <<>>
    THEN IF StrLen(trim(currentChunk)) > 0
         THEN Append(chunks, trim(currentChunk))
         ELSE chunks
    ELSE LET trimmedSentence == trim(Head(sentences))
         IN IF /\ StrLen(currentChunk) + StrLen(trimmedSentence) + 1 > maxChars
               /\ StrLen(currentChunk) > 0
            THEN accumulate(Tail(sentences),
                            trimmedSentence \o <<Run("dot", 1)>>,
                            Append(chunks, trim(currentChunk)), maxChars)
            ELSE accumulate(Tail(sentences),
                            currentChunk
                              \o (IF currentChunk # <<>> THEN <<Run("sp", 1)>> ELSE <<>>)
                              \o trimmedSentence \o <<Run("dot", 1)>>,
                            chunks, maxChars)

RECURSIVE fixedSlices(_, _)
fixedSlices(runs, maxChars) ==
    IF runs = <<>> THEN <<>>
    ELSE <<takeChars(runs, maxChars)>> \o fixedSlices(dropChars(runs, maxChars), maxChars)

chunkText(text, maxChars) ==
    LET chunks == accumulate(nonBlank(splitSentences(text, <<>>)), <<>>, <<>>, maxChars)
    IN IF Len(chunks) = 0 THEN fixedSlices(text, maxChars) ELSE chunks

\* the pieces processDocument embeds and stores, with their titles
\* the split test taken at the threshold itself
NeedsChunkingInclusive(content) == StrLen(content) >= TokenLimit * CharsPerToken

NeedsChunking(content) == StrLen(content) > TokenLimit * CharsPerToken

\* chunk titles numbered from the loop index
PiecesZeroBased(doc) ==
    IF NeedsChunking(doc.content)
    THEN LET chunks == chunkText(doc.content, ChunkChars)
         IN [i \in 1..Len(chunks) |->
                [title |-> [base |-> doc.title, part |-> i - 1, of |-> Len(chunks)],
                 content |-> chunks[i]]]
    ELSE <<[title |-> [base |-> doc.title, part |-> 0, of |-> 0],
            content |-> doc.content]>>

Pieces(doc) ==
    IF NeedsChunking(doc.content)
    THEN LET chunks == chunkText(doc.content, ChunkChars)
         IN [i \in 1..Len(chunks) |->
                [title |-> [base |-> doc.title, part |-> i, of |-> Len(chunks)],
                 content |-> chunks[i]]]
    ELSE <<[title |-> [base |-> doc.title, part |-> 0, of |-> 0],
            content |-> doc.content]>>

----------------------------------------------------------------------------
(* Ingestion inputs *)

Sentence(n) == <<Run("txt", n), Run("dot", 1), Run("sp", 1)>>

Contents ==
    { <<Run("txt", 100)>>,
      <<Run("txt", 20), Run("sp", 1), Run("txt", 30), Run("dot", 1)>>,
      <<Run("txt", 28000)>>,
      <<Run("txt", 28001)>>,
      <<Run("txt", 20000), Run("dot", 1), Run("sp", 1), Run("txt", 9000), Run("dot", 1)>>,
      Sentence(5000) \o Sentence(5000) \o Sentence(5000) \o Sentence(5000)
        \o Sentence(5000) \o Sentence(5000),
      Sentence(2900) \o Sentence(2900) \o Sentence(2900) \o Sentence(2900)
        \o Sentence(2900) \o Sentence(2900) \o Sentence(2900) \o Sentence(2900)
        \o Sentence(2900) \o Sentence(2900),
      <<Run("dot", 28001)>>,
      <<Run("txt", 20000), Run("bang", 1), Run("sp", 1), Run("txt", 9000), Run("dot", 1)>>,
      Sentence(2900) \o Sentence(3098) \o Sentence(2900) \o Sentence(3098)
        \o Sentence(2900) \o Sentence(3098) \o Sentence(2900) \o Sentence(3098)
        \o Sentence(2900) \o Sentence(3098),
      <<Run("sp", 10), Run("dot", 3), Run("txt", 15000), Run("dot", 2),
        Run("sp", 5), Run("txt", 14000)>> }

IngestDocs == [title : {"AI Act"}, content : Contents, jurisdiction : {"eu", "uk"}]

\* a row persisted by an earlier ingestion
ExistingRow ==
    [id |-> 1, title |-> [base |-> "NIST AI RMF", part |-> 0, of |-> 0],
     content |-> <<Run("txt", 100)>>, jurisdiction |-> "us-federal",
     embedding |-> "vector"]

----------------------------------------------------------------------------
(* DocumentProcessor.processDocument, one action per await *)

IngestIdle == [pc |-> "idle", doc |-> <<>>, pieces |-> <<>>, i |-> 0,
               base |-> 0, created |-> <<>>, embedCalls |-> 0]

IngestInit ==
    /\ ing = IngestIdle
    /\ documents = <<ExistingRow>>
    /\ nextId = 2
    /\ vectorStore = {1}

\* processDocument is called: the first embedding request is issued
StartIngest(doc) ==
    /\ ing.pc = "idle"
    /\ ing' = [pc |-> "embed", doc |-> doc, pieces |-> Pieces(doc), i |-> 1,
               base |-> Len(documents), created |-> <<>>, embedCalls |-> 1]
    /\ UNCHANGED <<routeVars, queryVars, auxVars>>
    /\ UNCHANGED <<documents, nextId, vectorStore>>

\* generateEmbedding returns or throws; on success storage.createDocument
\* is called
EmbedReturn(ok) ==
    /\ ing.pc = "embed"
    /\ ing' = [ing EXCEPT !.pc = IF ok THEN "create" ELSE "threw"]
    /\ UNCHANGED <<routeVars, queryVars, auxVars>>
    /\ UNCHANGED <<documents, nextId, vectorStore>>

NewRow(piece, doc, id) ==
    [id |-> id, title |-> piece.title, content |-> piece.content,
     jurisdiction |-> doc.jurisdiction, embedding |-> "vector"]

\* storage.createDocument persists the row; vectorStore.addDocument is called
CreateDocument ==
    /\ ing.pc = "create"
    /\ documents' = Append(documents, NewRow(ing.pieces[ing.i], ing.doc, nextId))
    /\ nextId' = nextId + 1
    /\ ing' = [ing EXCEPT !.pc = "index"]
    /\ UNCHANGED <<routeVars, queryVars, auxVars>>
    /\ UNCHANGED vectorStore

\* vectorStore.addDocument registers the row; the loop goes on to the next
\* chunk (its embedding request) or processDocument returns
IndexDocument ==
    /\ ing.pc = "index"
    /\ vectorStore' = vectorStore \cup {documents[Len(documents)].id}
    /\ LET created == Append(ing.created, documents[Len(documents)])
       IN IF ing.i < Len(ing.pieces)
          THEN ing' = [ing EXCEPT !.pc = "embed", !.i = @ + 1,
                                  !.created = created, !.embedCalls = @ + 1]
          ELSE ing' = [ing EXCEPT !.pc = "done", !.created = created]
    /\ UNCHANGED <<routeVars, queryVars, auxVars>>
    /\ UNCHANGED <<documents, nextId>>

----------------------------------------------------------------------------
(* DocumentProcessor.processMultipleDocuments: one processDocument promise
   per document of the batch, all sharing storage and the vector store *)

MaxBatch == 2    \* longest batch

BatchDocs ==
    { [title |-> "AI Act", jurisdiction |-> "eu",
       content |-> <<Run("txt", 100)>>],
      [title |-> "White Paper", jurisdiction |-> "uk",
       content |-> <<Run("txt", 20000), Run("dot", 1), Run("sp", 1),
                     Run("txt", 9000), Run("dot", 1)>>] }

Batches == SeqsUpTo(BatchDocs, MaxBatch)

BatchIdle == [pc |-> "idle", procs |-> <<>>, result |-> <<>>]

BatchInit == batch = BatchIdle

\* a processDocument call run up to its first await (the embedding request)
StartProcess(doc) ==
    [pc |-> "embed", doc |-> doc, pieces |-> Pieces(doc), i |-> 1, created |-> <<>>]

ProcessSettled(p) == p.pc \in {"done", "threw"}

\* documents.map(doc => this.processDocument(doc)): every call is started
StartBatch(docs) ==
    /\ batch.pc = "idle"
    /\ batch' = [pc |-> "running",
                 procs |-> [k \in 1..Len(docs) |-> StartProcess(docs[k])],
                 result |-> <<>>]
    /\ UNCHANGED <<routeVars, queryVars, ing, documents, nextId, vectorStore,
                   search, scoring, ag>>

\* document k: generateEmbedding returns or throws
BatchEmbedReturn(k, ok) ==
    /\ batch.pc = "running"
    /\ k \in 1..Len(batch.procs)
    /\ batch.procs[k].pc = "embed"
    /\ batch' = [batch EXCEPT !.procs[k].pc = IF ok THEN "create" ELSE "threw"]
    /\ UNCHANGED <<routeVars, queryVars, ing, documents, nextId, vectorStore,
                   search, scoring, ag>>

\* document k: storage.createDocument persists the row
BatchCreateDocument(k) ==
    /\ batch.pc = "running"
    /\ k \in 1..Len(batch.procs)
    /\ batch.procs[k].pc = "create"
    /\ LET p == batch.procs[k]
           row == NewRow(p.pieces[p.i], p.doc, nextId)
       IN /\ documents' = Append(documents, row)
          /\ batch' = [batch EXCEPT !.procs[k].pc = "index",
                                    !.procs[k].created = Append(@, row)]
    /\ nextId' = nextId + 1
    /\ UNCHANGED <<routeVars, queryVars, ing, vectorStore, search, scoring, ag>>

\* document k: vectorStore.addDocument registers the row just created; the
\* loop goes on to the next chunk or the promise fulfils
BatchIndexDocument(k) ==
    /\ batch.pc = "running"
    /\ k \in 1..Len(batch.procs)
    /\ batch.procs[k].pc = "index"
    /\ LET p == batch.procs[k]
       IN /\ vectorStore' = vectorStore \cup {p.created[Len(p.created)].id}
          /\ IF p.i < Len(p.pieces)
             THEN batch' = [batch EXCEPT !.procs[k].pc = "embed",
                                         !.procs[k].i = @ + 1]
             ELSE batch' = [batch EXCEPT !.procs[k].pc = "done"]
    /\ UNCHANGED <<routeVars, queryVars, ing, documents, nextId, search, scoring, ag>>

\* the fulfilled values of the settled promises, in input order
RECURSIVE successfulDocuments(_)
successfulDocuments(procs) ==
    IF procs = <<>> THEN <<>>
    ELSE IF Head(procs).pc = "done"
         THEN <<Head(procs).created[1]>> \o successfulDocuments(Tail(procs))
         ELSE successfulDocuments(Tail(procs))

\* processMultipleDocuments awaiting with Promise.all
processMultipleDocumentsFailFast(procs) ==
    [threw |-> \E k \in 1..Len(procs) : procs[k].pc = "threw",
     value |-> successfulDocuments(procs)]

processMultipleDocuments(procs) ==
    [threw |-> FALSE, value |-> successfulDocuments(procs)]

\* Promise.allSettled resolves and processMultipleDocuments returns
BatchSettle ==
    /\ batch.pc = "running"
    /\ \A k \in 1..Len(batch.procs) : ProcessSettled(batch.procs[k])
    /\ LET r == processMultipleDocuments(batch.procs)
       IN batch' = [batch EXCEPT !.pc = IF r.threw THEN "threw" ELSE "done",
                                 !.result = IF r.threw THEN <<>> ELSE r.value]
    /\ UNCHANGED <<routeVars, queryVars, ing, documents, nextId, vectorStore,
                   search, scoring, ag>>

NextBatch ==
    \/ \E docs \in Batches : StartBatch(docs)
    \/ \E k \in 1..MaxBatch, ok \in BOOLEAN : BatchEmbedReturn(k, ok)
    \/ \E k \in 1..MaxBatch : BatchCreateDocument(k)
    \/ \E k \in 1..MaxBatch : BatchIndexDocument(k)
    \/ BatchSettle

----------------------------------------------------------------------------
(* VectorStore: the documents and embeddings maps, addDocument and
   searchSimilar.  Vectors are sequences of at most two integers between -6
   and 6.  A similarity is a double: the record [s, n, d, e], with n / d in
   lowest terms, is the double that lies e units in the last place from the
   double nearest to s * sqrt(n / d) *)

MaxDocs == 3     \* most addDocument calls on one store
MaxK == 2        \* largest explicit limit
DefaultLimit == 10

\* rows as storage returns them: embedding is <<>> for null and <<v>> for
\* the JSON text of the vector v
StoreRows ==
    { [id |-> 1, jurisdiction |-> "eu", embedding |-> << <<1, 0>> >>],
      [id |-> 2, jurisdiction |-> "eu", embedding |-> << <<1, 1>> >>],
      [id |-> 3, jurisdiction |-> "eu", embedding |-> << <<3, 4>> >>],
      [id |-> 4, jurisdiction |-> "uk", embedding |-> << <<2, 0>> >>],
      [id |-> 5, jurisdiction |-> "uk", embedding |-> <<>>],
      [id |-> 6, jurisdiction |-> "us-federal", embedding |-> << <<0, 0>> >>],
      [id |-> 7, jurisdiction |-> "eu", embedding |-> << <<-5, -5>> >>],
      [id |-> 8, jurisdiction |-> "eu", embedding |-> << <<-6, -6>> >>] }

QueryEmbeddings == { <<1, 0>>, <<1, 1>>, <<-1, 0>>, <<0, 0>>, <<1>>, <<-2, -2>> }

Limits == (0..MaxK) \cup {DefaultLimit}

\* the jurisdictions argument: omitted, or a list
AllowLists ==
    { [given |-> FALSE, list |-> <<>>],
      [given |-> TRUE, list |-> <<>>],
      [given |-> TRUE, list |-> <<"eu">>],
      [given |-> TRUE, list |-> <<"eu", "uk">>],
      [given |-> TRUE, list |-> <<"germany">>] }

NoCall == [query |-> <<>>, limit |-> 0, jurisdictions |-> [given |-> FALSE, list |-> <<>>]]

SearchInit ==
    search = [documents |-> <<>>, embeddings |-> <<>>, adds |-> 0,
              pc |-> "idle", call |-> NoCall, result |-> <<>>]

\* Map.set: replace the value of an existing key in place, else append
MapSet(map, key, value) ==
    IF \E n \in 1..Len(map) : map[n].key = key
    THEN [n \in 1..Len(map) |->
             IF map[n].key = key THEN [key |-> key, value |-> value] ELSE map[n]]
    ELSE Append(map, [key |-> key, value |-> value])

MapHas(map, key) == \E n \in 1..Len(map) : map[n].key = key
MapGet(map, key) == (CHOOSE n \in 1..Len(map) : map[n].key = key)

\* vectorStore.addDocument(document)
AddDocument(document) ==
    /\ search.adds < MaxDocs
    /\ search' = [search EXCEPT
           !.documents = MapSet(@, document.id, document),
           !.embeddings = IF document.embedding # <<>>
                          THEN MapSet(@, document.id, document.embedding[1])
                          ELSE @,
           !.adds = @ + 1,
           !.pc = "idle", !.call = NoCall, !.result = <<>>]
    /\ UNCHANGED <<routeVars, queryVars, ingestVars, batch, scoring, ag>>

RECURSIVE dotProduct(_, _)
dotProduct(a, b) ==
    IF a = <<>> THEN 0 ELSE Head(a) * Head(b) + dotProduct(Tail(a), Tail(b))

RECURSIVE gcd(_, _)
gcd(x, y) == IF y = 0 THEN x ELSE gcd(y, x % y)

Sign(x) == IF x > 0 THEN 1 ELSE IF x < 0 THEN -1 ELSE 0

ZeroSimilarity == [s |-> 0, n |-> 0, d |-> 1, e |-> 0]

\* the rounding of dotProduct / (Math.sqrt(normA) * Math.sqrt(normB)) in
\* IEEE-754 doubles: <<dp, na, nb, e>>, with na <= nb, says that for the
\* dot product dp and the squared norms na and nb the quotient lies e units
\* in the last place from the double nearest to dp / sqrt(na * nb); the
\* quotients of the other vectors of the domain are that nearest double
CosineRounding ==
    { <<-72, 72, 72, -1>>, <<-66, 61, 72, -2>>, <<-61, 61, 61, -1>>, <<-60, 52, 72, -2>>, <<-60, 61, 61, -1>>,
      <<-56, 52, 61, -1>>, <<-54, 52, 61, -1>>, <<-52, 52, 52, -1>>, <<-50, 41, 61, -1>>, <<-50, 50, 50, 1>>,
      <<-48, 34, 72, -1>>, <<-48, 40, 72, -1>>, <<-48, 45, 52, -1>>, <<-48, 45, 61, 1>>, <<-48, 52, 52, -1>>,
      <<-46, 41, 52, -1>>, <<-45, 34, 61, 1>>, <<-45, 41, 50, 1>>, <<-45, 45, 45, 1>>, <<-44, 41, 52, -2>>,
      <<-42, 25, 72, -1>>, <<-42, 29, 72, -1>>, <<-42, 34, 52, 1>>, <<-42, 37, 72, -1>>, <<-42, 40, 45, 1>>,
      <<-42, 45, 52, -1>>, <<-40, 29, 61, -2>>, <<-40, 32, 50, 2>>, <<-40, 32, 52, 1>>, <<-40, 37, 52, -1>>,
      <<-40, 40, 40, 2>>, <<-39, 25, 61, -1>>, <<-39, 34, 45, 1>>, <<-38, 29, 52, -1>>, <<-38, 37, 40, -1>>,
      <<-37, 29, 61, -1>>, <<-37, 34, 41, 1>>, <<-37, 37, 37, -1>>, <<-36, 18, 72, -1>>, <<-36, 25, 52, -1>>,
      <<-36, 32, 41, 1>>, <<-36, 32, 45, 1>>, <<-36, 34, 40, 1>>, <<-36, 37, 61, -1>>, <<-36, 45, 45, 2>>,
      <<-35, 25, 50, 1>>, <<-35, 26, 61, -2>>, <<-35, 29, 50, 1>>, <<-35, 34, 41, 1>>, <<-35, 37, 37, -2>>,
      <<-34, 20, 61, -1>>, <<-34, 29, 40, 1>>, <<-34, 37, 40, -1>>, <<-34, 37, 41, -1>>, <<-33, 18, 61, -2>>,
      <<-33, 25, 45, 1>>, <<-33, 34, 45, 1>>, <<-32, 20, 52, -1>>, <<-32, 26, 40, -1>>, <<-32, 29, 37, -1>>,
      <<-32, 29, 52, -1>>, <<-32, 32, 32, 2>>, <<-32, 37, 52, -1>>, <<-32, 40, 40, 2>>, <<-31, 26, 61, -1>>,
      <<-30, 13, 72, -2>>, <<-30, 18, 52, -2>>, <<-30, 20, 45, 1>>, <<-30, 25, 37, -1>>, <<-30, 25, 45, 1>>,
      <<-30, 26, 36, -1>>, <<-30, 29, 36, -1>>, <<-30, 34, 36, 1>>, <<-30, 36, 41, -1>>, <<-30, 36, 50, 1>>,
      <<-30, 36, 61, -1>>, <<-30, 37, 72, -1>>, <<-30, 40, 45, 1>>, <<-29, 17, 61, -1>>, <<-29, 26, 37, -1>>,
      <<-29, 26, 41, -1>>, <<-29, 29, 29, -1>>, <<-29, 37, 41, -1>>, <<-28, 13, 61, -1>>, <<-28, 17, 52, -1>>,
      <<-28, 20, 40, 2>>, <<-28, 20, 41, 1>>, <<-28, 20, 52, -1>>, <<-28, 25, 32, 1>>, <<-28, 26, 40, -1>>,
      <<-28, 29, 32, 1>>, <<-28, 34, 40, 1>>, <<-27, 13, 61, -1>>, <<-27, 17, 45, 1>>, <<-27, 25, 37, -1>>,
      <<-27, 26, 29, -1>>, <<-27, 29, 45, -1>>, <<-27, 45, 45, 1>>, <<-26, 13, 52, -1>>, <<-26, 17, 40, 1>>,
      <<-26, 17, 61, -1>>, <<-26, 20, 34, 1>>, <<-26, 20, 37, 1>>, <<-26, 25, 40, 1>>, <<-26, 26, 26, -1>>,
      <<-26, 29, 40, 1>>, <<-26, 37, 41, -1>>, <<-25, 17, 37, -1>>, <<-25, 25, 41, -1>>, <<-25, 25, 50, 1>>,
      <<-25, 25, 61, -1>>, <<-25, 26, 41, -1>>, <<-25, 26, 61, -1>>, <<-25, 37, 50, -1>>, <<-24, 10, 72, -1>>,
      <<-24, 13, 45, -1>>, <<-24, 13, 52, -1>>, <<-24, 17, 36, -1>>, <<-24, 18, 34, -1>>, <<-24, 18, 40, -1>>,
      <<-24, 20, 29, 1>>, <<-24, 20, 45, 1>>, <<-24, 26, 26, -1>>, <<-24, 32, 36, 1>>, <<-24, 34, 40, 1>>,
      <<-24, 37, 61, -1>>, <<-24, 40, 40, 1>>, <<-24, 40, 72, -1>>, <<-24, 45, 52, -1>>, <<-23, 13, 41, -1>>,
      <<-23, 17, 37, -1>>, <<-23, 26, 29, -1>>, <<-22, 13, 41, -2>>, <<-22, 17, 29, -2>>, <<-22, 17, 52, -1>>,
      <<-22, 20, 37, 1>>, <<-22, 25, 37, -1>>, <<-22, 29, 40, 1>>, <<-22, 29, 52, -1>>, <<-21, 10, 45, 1>>,
      <<-21, 13, 34, 1>>, <<-21, 13, 45, -1>>, <<-21, 17, 26, -1>>, <<-21, 18, 25, -1>>, <<-21, 18, 29, -1>>,
      <<-21, 18, 37, -1>>, <<-21, 26, 41, -1>>, <<-21, 29, 29, -1>>, <<-21, 34, 45, 1>>, <<-20, 8, 50, 2>>,
      <<-20, 8, 52, 1>>, <<-20, 10, 40, 2>>, <<-20, 13, 32, 1>>, <<-20, 13, 37, -1>>, <<-20, 16, 26, -1>>,
      <<-20, 16, 29, -1>>, <<-20, 16, 34, 1>>, <<-20, 16, 41, -1>>, <<-20, 16, 50, 1>>, <<-20, 16, 61, -1>>,
      <<-20, 17, 32, 1>>, <<-20, 17, 52, -1>>, <<-20, 20, 20, 2>>, <<-20, 20, 40, 1>>, <<-20, 25, 32, 1>>,
      <<-20, 29, 61, -2>>, <<-20, 32, 37, -1>>, <<-20, 52, 52, -1>>, <<-19, 10, 37, -1>>, <<-19, 13, 29, -1>>,
      <<-19, 17, 26, -1>>, <<-19, 26, 61, -2>>, <<-19, 37, 41, -2>>, <<-18, 8, 41, 1>>, <<-18, 8, 45, 1>>,
      <<-18, 10, 34, 1>>, <<-18, 13, 25, -1>>, <<-18, 17, 20, -1>>, <<-18, 17, 29, -1>>, <<-18, 17, 72, -1>>,
      <<-18, 18, 18, -1>>, <<-18, 25, 40, 1>>, <<-18, 37, 40, -1>>, <<-18, 37, 52, -1>>, <<-18, 41, 45, -1>>,
      <<-17, 5, 61, -1>>, <<-17, 10, 29, 1>>, <<-17, 10, 37, -1>>, <<-17, 17, 34, 1>>, <<-17, 29, 37, -1>>,
      <<-16, 5, 52, -1>>, <<-16, 8, 32, 2>>, <<-16, 10, 26, -1>>, <<-16, 10, 40, 2>>, <<-16, 13, 20, -1>>,
      <<-16, 13, 29, -1>>, <<-16, 13, 37, -1>>, <<-16, 16, 32, 1>>, <<-16, 20, 20, 2>>, <<-16, 20, 52, -1>>,
      <<-16, 26, 40, -1>>, <<-16, 52, 61, -1>>, <<-15, 5, 45, 1>>, <<-15, 9, 26, -1>>, <<-15, 9, 29, -1>>,
      <<-15, 9, 34, 1>>, <<-15, 9, 41, -1>>, <<-15, 9, 50, 1>>, <<-15, 9, 61, -1>>, <<-15, 10, 45, 1>>,
      <<-15, 13, 18, -2>>, <<-15, 17, 50, -1>>, <<-15, 18, 37, -1>>, <<-15, 25, 34, -1>>, <<-15, 25, 45, 1>>,
      <<-15, 26, 29, -1>>, <<-15, 26, 41, -1>>, <<-15, 29, 50, 1>>, <<-15, 34, 61, 1>>, <<-15, 45, 50, 1>>,
      <<-14, 5, 40, 2>>, <<-14, 5, 41, 1>>, <<-14, 5, 52, -1>>, <<-14, 8, 25, 1>>, <<-14, 8, 29, 1>>,
      <<-14, 10, 20, 2>>, <<-14, 10, 26, -1>>, <<-14, 10, 34, 1>>, <<-14, 13, 17, -1>>, <<-14, 13, 20, -1>>,
      <<-14, 17, 40, 1>>, <<-14, 17, 61, -1>>, <<-14, 20, 34, 1>>, <<-14, 20, 61, -1>>, <<-14, 25, 29, -1>>,
      <<-14, 26, 52, -1>>, <<-14, 41, 52, -1>>, <<-13, 5, 34, 1>>, <<-13, 5, 37, 1>>, <<-13, 10, 17, 1>>,
      <<-13, 10, 25, 1>>, <<-13, 10, 29, 1>>, <<-13, 13, 13, -1>>, <<-13, 17, 25, 1>>, <<-13, 17, 29, -1>>,
      <<-13, 29, 61, -1>>, <<-12, 5, 29, 1>>, <<-12, 5, 45, 1>>, <<-12, 8, 36, 1>>, <<-12, 9, 17, -1>>,
      <<-12, 9, 32, 1>>, <<-12, 10, 18, -1>>, <<-12, 10, 34, 1>>, <<-12, 10, 40, 1>>, <<-12, 10, 72, -1>>,
      <<-12, 13, 13, -1>>, <<-12, 13, 45, -1>>, <<-12, 18, 40, -1>>, <<-12, 20, 20, 1>>, <<-12, 29, 32, 1>>,
      <<-12, 29, 36, -1>>, <<-12, 32, 45, 1>>, <<-12, 34, 72, -1>>, <<-12, 37, 37, -1>>, <<-12, 40, 52, -1>>,
      <<-12, 45, 61, 1>>, <<-12, 52, 72, -1>>, <<-11, 5, 37, 1>>, <<-11, 10, 29, 1>>, <<-11, 13, 17, -1>>,
      <<-11, 13, 29, -1>>, <<-11, 25, 26, 1>>, <<-11, 26, 37, -1>>, <<-11, 61, 61, -1>>, <<-10, 2, 50, 2>>,
      <<-10, 2, 52, 1>>, <<-10, 4, 26, -1>>, <<-10, 4, 29, -1>>, <<-10, 4, 34, 1>>, <<-10, 4, 41, -1>>,
      <<-10, 4, 50, 1>>, <<-10, 4, 61, -1>>, <<-10, 5, 20, 2>>, <<-10, 5, 40, 1>>, <<-10, 8, 13, 1>>,
      <<-10, 8, 17, 1>>, <<-10, 8, 25, 1>>, <<-10, 8, 37, -1>>, <<-10, 10, 10, 2>>, <<-10, 10, 20, 1>>,
      <<-10, 13, 17, -1>>, <<-10, 13, 52, -1>>, <<-10, 17, 52, -1>>, <<-10, 20, 50, 1>>, <<-10, 25, 40, 1>>,
      <<-10, 26, 26, -1>>, <<-9, 2, 41, 1>>, <<-9, 2, 45, 1>>, <<-9, 5, 17, -1>>, <<-9, 10, 25, 1>>,
      <<-9, 10, 37, -1>>, <<-9, 13, 37, -1>>, <<-9, 17, 18, -1>>, <<-9, 17, 26, -1>>, <<-9, 26, 45, -1>>,
      <<-9, 41, 45, -1>>, <<-8, 2, 32, 2>>, <<-8, 4, 32, 1>>, <<-8, 5, 13, -1>>, <<-8, 5, 20, 2>>,
      <<-8, 5, 52, -1>>, <<-8, 8, 8, 2>>, <<-8, 8, 16, 1>>, <<-8, 10, 10, 2>>, <<-8, 10, 26, -1>>,
      <<-8, 13, 20, -1>>, <<-8, 13, 61, -1>>, <<-8, 29, 52, -1>>, <<-8, 32, 52, 1>>, <<-8, 34, 40, 1>>,
      <<-7, 2, 25, 1>>, <<-7, 2, 29, 1>>, <<-7, 5, 10, 2>>, <<-7, 5, 13, -1>>, <<-7, 5, 34, 1>>,
      <<-7, 5, 61, -1>>, <<-7, 10, 17, 1>>, <<-7, 13, 26, -1>>, <<-7, 13, 41, -1>>, <<-7, 17, 34, 1>>,
      <<-7, 25, 29, -1>>, <<-6, 2, 36, 1>>, <<-6, 5, 20, 1>>, <<-6, 8, 9, 1>>, <<-6, 8, 29, 1>>,
      <<-6, 8, 45, 1>>, <<-6, 9, 29, -1>>, <<-6, 10, 10, 1>>, <<-6, 10, 18, -1>>, <<-6, 10, 52, -1>>,
      <<-6, 13, 40, -1>>, <<-6, 13, 72, -1>>, <<-6, 17, 36, -1>>, <<-6, 17, 45, 1>>, <<-6, 18, 34, -1>>,
      <<-6, 18, 52, -1>>, <<-6, 20, 26, -1>>, <<-6, 25, 45, 1>>, <<-6, 25, 72, -1>>, <<-6, 45, 52, -1>>,
      <<-6, 52, 61, -1>>, <<-6, 61, 72, -1>>, <<-5, 1, 26, -1>>, <<-5, 1, 29, -1>>, <<-5, 1, 34, 1>>,
      <<-5, 1, 41, -1>>, <<-5, 1, 50, 1>>, <<-5, 1, 61, -1>>, <<-5, 2, 13, 1>>, <<-5, 2, 17, 1>>,
      <<-5, 2, 25, 1>>, <<-5, 2, 37, -1>>, <<-5, 5, 5, 2>>, <<-5, 5, 10, 1>>, <<-5, 5, 50, 1>>,
      <<-5, 10, 25, 1>>, <<-5, 13, 13, -1>>, <<-5, 13, 17, -1>>, <<-5, 29, 34, 1>>, <<-5, 34, 41, 1>>,
      <<-5, 41, 50, 1>>, <<-4, 1, 32, 1>>, <<-4, 2, 8, 2>>, <<-4, 2, 16, 1>>, <<-4, 4, 8, 1>>,
      <<-4, 5, 5, 2>>, <<-4, 5, 13, -1>>, <<-4, 8, 52, 1>>, <<-4, 10, 34, 1>>, <<-4, 13, 29, -1>>,
      <<-4, 13, 32, 1>>, <<-4, 20, 40, 1>>, <<-4, 20, 52, -1>>, <<-4, 26, 40, -1>>, <<-4, 32, 41, 1>>,
      <<-4, 41, 52, -1>>, <<-3, 2, 9, 1>>, <<-3, 2, 29, 1>>, <<-3, 2, 45, 1>>, <<-3, 5, 5, 1>>,
      <<-3, 5, 26, -1>>, <<-3, 9, 17, -1>>, <<-3, 10, 13, -1>>, <<-3, 13, 18, -1>>, <<-3, 13, 45, -1>>,
      <<-3, 13, 61, -1>>, <<-3, 18, 25, -1>>, <<-3, 18, 61, -1>>, <<-3, 34, 45, 1>>, <<-2, 1, 8, 1>>,
      <<-2, 2, 2, 2>>, <<-2, 2, 4, 1>>, <<-2, 2, 52, 1>>, <<-2, 5, 40, 1>>, <<-2, 5, 52, -1>>,
      <<-2, 8, 13, 1>>, <<-2, 8, 41, 1>>, <<-2, 10, 20, 1>>, <<-2, 10, 26, -1>>, <<-2, 13, 20, -1>>,
      <<-2, 13, 41, -1>>, <<-2, 17, 37, -1>>, <<-2, 17, 40, 1>>, <<-2, 20, 34, 1>>, <<-1, 1, 2, 1>>,
      <<-1, 2, 13, 1>>, <<-1, 2, 41, 1>>, <<-1, 5, 10, 1>>, <<-1, 5, 13, -1>>, <<-1, 5, 34, 1>>,
      <<-1, 10, 17, 1>>, <<-1, 17, 26, -1>>, <<1, 1, 2, -1>>, <<1, 2, 13, -1>>, <<1, 2, 41, -1>>,
      <<1, 5, 10, -1>>, <<1, 5, 13, 1>>, <<1, 5, 34, -1>>, <<1, 10, 17, -1>>, <<1, 17, 26, 1>>,
      <<2, 1, 8, -1>>, <<2, 2, 2, -2>>, <<2, 2, 4, -1>>, <<2, 2, 52, -1>>, <<2, 5, 40, -1>>,
      <<2, 5, 52, 1>>, <<2, 8, 13, -1>>, <<2, 8, 41, -1>>, <<2, 10, 20, -1>>, <<2, 10, 26, 1>>,
      <<2, 13, 20, 1>>, <<2, 13, 41, 1>>, <<2, 17, 37, 1>>, <<2, 17, 40, -1>>, <<2, 20, 34, -1>>,
      <<3, 2, 9, -1>>, <<3, 2, 29, -1>>, <<3, 2, 45, -1>>, <<3, 5, 5, -1>>, <<3, 5, 26, 1>>,
      <<3, 9, 17, 1>>, <<3, 10, 13, 1>>, <<3, 13, 18, 1>>, <<3, 13, 45, 1>>, <<3, 13, 61, 1>>,
      <<3, 18, 25, 1>>, <<3, 18, 61, 1>>, <<3, 34, 45, -1>>, <<4, 1, 32, -1>>, <<4, 2, 8, -2>>,
      <<4, 2, 16, -1>>, <<4, 4, 8, -1>>, <<4, 5, 5, -2>>, <<4, 5, 13, 1>>, <<4, 8, 52, -1>>,
      <<4, 10, 34, -1>>, <<4, 13, 29, 1>>, <<4, 13, 32, -1>>, <<4, 20, 40, -1>>, <<4, 20, 52, 1>>,
      <<4, 26, 40, 1>>, <<4, 32, 41, -1>>, <<4, 41, 52, 1>>, <<5, 1, 26, 1>>, <<5, 1, 29, 1>>,
      <<5, 1, 34, -1>>, <<5, 1, 41, 1>>, <<5, 1, 50, -1>>, <<5, 1, 61, 1>>, <<5, 2, 13, -1>>,
      <<5, 2, 17, -1>>, <<5, 2, 25, -1>>, <<5, 2, 37, 1>>, <<5, 5, 5, -2>>, <<5, 5, 10, -1>>,
      <<5, 5, 50, -1>>, <<5, 10, 25, -1>>, <<5, 13, 13, 1>>, <<5, 13, 17, 1>>, <<5, 29, 34, -1>>,
      <<5, 34, 41, -1>>, <<5, 41, 50, -1>>, <<6, 2, 36, -1>>, <<6, 5, 20, -1>>, <<6, 8, 9, -1>>,
      <<6, 8, 29, -1>>, <<6, 8, 45, -1>>, <<6, 9, 29, 1>>, <<6, 10, 10, -1>>, <<6, 10, 18, 1>>,
      <<6, 10, 52, 1>>, <<6, 13, 40, 1>>, <<6, 13, 72, 1>>, <<6, 17, 36, 1>>, <<6, 17, 45, -1>>,
      <<6, 18, 34, 1>>, <<6, 18, 52, 1>>, <<6, 20, 26, 1>>, <<6, 25, 45, -1>>, <<6, 25, 72, 1>>,
      <<6, 45, 52, 1>>, <<6, 52, 61, 1>>, <<6, 61, 72, 1>>, <<7, 2, 25, -1>>, <<7, 2, 29, -1>>,
      <<7, 5, 10, -2>>, <<7, 5, 13, 1>>, <<7, 5, 34, -1>>, <<7, 5, 61, 1>>, <<7, 10, 17, -1>>,
      <<7, 13, 26, 1>>, <<7, 13, 41, 1>>, <<7, 17, 34, -1>>, <<7, 25, 29, 1>>, <<8, 2, 32, -2>>,
      <<8, 4, 32, -1>>, <<8, 5, 13, 1>>, <<8, 5, 20, -2>>, <<8, 5, 52, 1>>, <<8, 8, 8, -2>>,
      <<8, 8, 16, -1>>, <<8, 10, 10, -2>>, <<8, 10, 26, 1>>, <<8, 13, 20, 1>>, <<8, 13, 61, 1>>,
      <<8, 29, 52, 1>>, <<8, 32, 52, -1>>, <<8, 34, 40, -1>>, <<9, 2, 41, -1>>, <<9, 2, 45, -1>>,
      <<9, 5, 17, 1>>, <<9, 10, 25, -1>>, <<9, 10, 37, 1>>, <<9, 13, 37, 1>>, <<9, 17, 18, 1>>,
      <<9, 17, 26, 1>>, <<9, 26, 45, 1>>, <<9, 41, 45, 1>>, <<10, 2, 50, -2>>, <<10, 2, 52, -1>>,
      <<10, 4, 26, 1>>, <<10, 4, 29, 1>>, <<10, 4, 34, -1>>, <<10, 4, 41, 1>>, <<10, 4, 50, -1>>,
      <<10, 4, 61, 1>>, <<10, 5, 20, -2>>, <<10, 5, 40, -1>>, <<10, 8, 13, -1>>, <<10, 8, 17, -1>>,
      <<10, 8, 25, -1>>, <<10, 8, 37, 1>>, <<10, 10, 10, -2>>, <<10, 10, 20, -1>>, <<10, 13, 17, 1>>,
      <<10, 13, 52, 1>>, <<10, 17, 52, 1>>, <<10, 20, 50, -1>>, <<10, 25, 40, -1>>, <<10, 26, 26, 1>>,
      <<11, 5, 37, -1>>, <<11, 10, 29, -1>>, <<11, 13, 17, 1>>, <<11, 13, 29, 1>>, <<11, 25, 26, -1>>,
      <<11, 26, 37, 1>>, <<11, 61, 61, 1>>, <<12, 5, 29, -1>>, <<12, 5, 45, -1>>, <<12, 8, 36, -1>>,
      <<12, 9, 17, 1>>, <<12, 9, 32, -1>>, <<12, 10, 18, 1>>, <<12, 10, 34, -1>>, <<12, 10, 40, -1>>,
      <<12, 10, 72, 1>>, <<12, 13, 13, 1>>, <<12, 13, 45, 1>>, <<12, 18, 40, 1>>, <<12, 20, 20, -1>>,
      <<12, 29, 32, -1>>, <<12, 29, 36, 1>>, <<12, 32, 45, -1>>, <<12, 34, 72, 1>>, <<12, 37, 37, 1>>,
      <<12, 40, 52, 1>>, <<12, 45, 61, -1>>, <<12, 52, 72, 1>>, <<13, 5, 34, -1>>, <<13, 5, 37, -1>>,
      <<13, 10, 17, -1>>, <<13, 10, 25, -1>>, <<13, 10, 29, -1>>, <<13, 13, 13, 1>>, <<13, 17, 25, -1>>,
      <<13, 17, 29, 1>>, <<13, 29, 61, 1>>, <<14, 5, 40, -2>>, <<14, 5, 41, -1>>, <<14, 5, 52, 1>>,
      <<14, 8, 25, -1>>, <<14, 8, 29, -1>>, <<14, 10, 20, -2>>, <<14, 10, 26, 1>>, <<14, 10, 34, -1>>,
      <<14, 13, 17, 1>>, <<14, 13, 20, 1>>, <<14, 17, 40, -1>>, <<14, 17, 61, 1>>, <<14, 20, 34, -1>>,
      <<14, 20, 61, 1>>, <<14, 25, 29, 1>>, <<14, 26, 52, 1>>, <<14, 41, 52, 1>>, <<15, 5, 45, -1>>,
      <<15, 9, 26, 1>>, <<15, 9, 29, 1>>, <<15, 9, 34, -1>>, <<15, 9, 41, 1>>, <<15, 9, 50, -1>>,
      <<15, 9, 61, 1>>, <<15, 10, 45, -1>>, <<15, 13, 18, 2>>, <<15, 17, 50, 1>>, <<15, 18, 37, 1>>,
      <<15, 25, 34, 1>>, <<15, 25, 45, -1>>, <<15, 26, 29, 1>>, <<15, 26, 41, 1>>, <<15, 29, 50, -1>>,
      <<15, 34, 61, -1>>, <<15, 45, 50, -1>>, <<16, 5, 52, 1>>, <<16, 8, 32, -2>>, <<16, 10, 26, 1>>,
      <<16, 10, 40, -2>>, <<16, 13, 20, 1>>, <<16, 13, 29, 1>>, <<16, 13, 37, 1>>, <<16, 16, 32, -1>>,
      <<16, 20, 20, -2>>, <<16, 20, 52, 1>>, <<16, 26, 40, 1>>, <<16, 52, 61, 1>>, <<17, 5, 61, 1>>,
      <<17, 10, 29, -1>>, <<17, 10, 37, 1>>, <<17, 17, 34, -1>>, <<17, 29, 37, 1>>, <<18, 8, 41, -1>>,
      <<18, 8, 45, -1>>, <<18, 10, 34, -1>>, <<18, 13, 25, 1>>, <<18, 17, 20, 1>>, <<18, 17, 29, 1>>,
      <<18, 17, 72, 1>>, <<18, 18, 18, 1>>, <<18, 25, 40, -1>>, <<18, 37, 40, 1>>, <<18, 37, 52, 1>>,
      <<18, 41, 45, 1>>, <<19, 10, 37, 1>>, <<19, 13, 29, 1>>, <<19, 17, 26, 1>>, <<19, 26, 61, 2>>,
      <<19, 37, 41, 2>>, <<20, 8, 50, -2>>, <<20, 8, 52, -1>>, <<20, 10, 40, -2>>, <<20, 13, 32, -1>>,
      <<20, 13, 37, 1>>, <<20, 16, 26, 1>>, <<20, 16, 29, 1>>, <<20, 16, 34, -1>>, <<20, 16, 41, 1>>,
      <<20, 16, 50, -1>>, <<20, 16, 61, 1>>, <<20, 17, 32, -1>>, <<20, 17, 52, 1>>, <<20, 20, 20, -2>>,
      <<20, 20, 40, -1>>, <<20, 25, 32, -1>>, <<20, 29, 61, 2>>, <<20, 32, 37, 1>>, <<20, 52, 52, 1>>,
      <<21, 10, 45, -1>>, <<21, 13, 34, -1>>, <<21, 13, 45, 1>>, <<21, 17, 26, 1>>, <<21, 18, 25, 1>>,
      <<21, 18, 29, 1>>, <<21, 18, 37, 1>>, <<21, 26, 41, 1>>, <<21, 29, 29, 1>>, <<21, 34, 45, -1>>,
      <<22, 13, 41, 2>>, <<22, 17, 29, 2>>, <<22, 17, 52, 1>>, <<22, 20, 37, -1>>, <<22, 25, 37, 1>>,
      <<22, 29, 40, -1>>, <<22, 29, 52, 1>>, <<23, 13, 41, 1>>, <<23, 17, 37, 1>>, <<23, 26, 29, 1>>,
      <<24, 10, 72, 1>>, <<24, 13, 45, 1>>, <<24, 13, 52, 1>>, <<24, 17, 36, 1>>, <<24, 18, 34, 1>>,
      <<24, 18, 40, 1>>, <<24, 20, 29, -1>>, <<24, 20, 45, -1>>, <<24, 26, 26, 1>>, <<24, 32, 36, -1>>,
      <<24, 34, 40, -1>>, <<24, 37, 61, 1>>, <<24, 40, 40, -1>>, <<24, 40, 72, 1>>, <<24, 45, 52, 1>>,
      <<25, 17, 37, 1>>, <<25, 25, 41, 1>>, <<25, 25, 50, -1>>, <<25, 25, 61, 1>>, <<25, 26, 41, 1>>,
      <<25, 26, 61, 1>>, <<25, 37, 50, 1>>, <<26, 13, 52, 1>>, <<26, 17, 40, -1>>, <<26, 17, 61, 1>>,
      <<26, 20, 34, -1>>, <<26, 20, 37, -1>>, <<26, 25, 40, -1>>, <<26, 26, 26, 1>>, <<26, 29, 40, -1>>,
      <<26, 37, 41, 1>>, <<27, 13, 61, 1>>, <<27, 17, 45, -1>>, <<27, 25, 37, 1>>, <<27, 26, 29, 1>>,
      <<27, 29, 45, 1>>, <<27, 45, 45, -1>>, <<28, 13, 61, 1>>, <<28, 17, 52, 1>>, <<28, 20, 40, -2>>,
      <<28, 20, 41, -1>>, <<28, 20, 52, 1>>, <<28, 25, 32, -1>>, <<28, 26, 40, 1>>, <<28, 29, 32, -1>>,
      <<28, 34, 40, -1>>, <<29, 17, 61, 1>>, <<29, 26, 37, 1>>, <<29, 26, 41, 1>>, <<29, 29, 29, 1>>,
      <<29, 37, 41, 1>>, <<30, 13, 72, 2>>, <<30, 18, 52, 2>>, <<30, 20, 45, -1>>, <<30, 25, 37, 1>>,
      <<30, 25, 45, -1>>, <<30, 26, 36, 1>>, <<30, 29, 36, 1>>, <<30, 34, 36, -1>>, <<30, 36, 41, 1>>,
      <<30, 36, 50, -1>>, <<30, 36, 61, 1>>, <<30, 37, 72, 1>>, <<30, 40, 45, -1>>, <<31, 26, 61, 1>>,
      <<32, 20, 52, 1>>, <<32, 26, 40, 1>>, <<32, 29, 37, 1>>, <<32, 29, 52, 1>>, <<32, 32, 32, -2>>,
      <<32, 37, 52, 1>>, <<32, 40, 40, -2>>, <<33, 18, 61, 2>>, <<33, 25, 45, -1>>, <<33, 34, 45, -1>>,
      <<34, 20, 61, 1>>, <<34, 29, 40, -1>>, <<34, 37, 40, 1>>, <<34, 37, 41, 1>>, <<35, 25, 50, -1>>,
      <<35, 26, 61, 2>>, <<35, 29, 50, -1>>, <<35, 34, 41, -1>>, <<35, 37, 37, 2>>, <<36, 18, 72, 1>>,
      <<36, 25, 52, 1>>, <<36, 32, 41, -1>>, <<36, 32, 45, -1>>, <<36, 34, 40, -1>>, <<36, 37, 61, 1>>,
      <<36, 45, 45, -2>>, <<37, 29, 61, 1>>, <<37, 34, 41, -1>>, <<37, 37, 37, 1>>, <<38, 29, 52, 1>>,
      <<38, 37, 40, 1>>, <<39, 25, 61, 1>>, <<39, 34, 45, -1>>, <<40, 29, 61, 2>>, <<40, 32, 50, -2>>,
      <<40, 32, 52, -1>>, <<40, 37, 52, 1>>, <<40, 40, 40, -2>>, <<42, 25, 72, 1>>, <<42, 29, 72, 1>>,
      <<42, 34, 52, -1>>, <<42, 37, 72, 1>>, <<42, 40, 45, -1>>, <<42, 45, 52, 1>>, <<44, 41, 52, 2>>,
      <<45, 34, 61, -1>>, <<45, 41, 50, -1>>, <<45, 45, 45, -1>>, <<46, 41, 52, 1>>, <<48, 34, 72, 1>>,
      <<48, 40, 72, 1>>, <<48, 45, 52, 1>>, <<48, 45, 61, -1>>, <<48, 52, 52, 1>>, <<50, 41, 61, 1>>,
      <<50, 50, 50, -1>>, <<52, 52, 52, 1>>, <<54, 52, 61, 1>>, <<56, 52, 61, 1>>, <<60, 52, 72, 2>>,
      <<60, 61, 61, 1>>, <<61, 61, 61, 1>>, <<66, 61, 72, 2>>, <<72, 72, 72, 1>> }

RoundingOf(dp, na, nb) ==
    LET lo == IF na < nb THEN na ELSE nb
        hi == IF na < nb THEN nb ELSE na
    IN IF <<dp, lo, hi, -2>> \in CosineRounding THEN -2
       ELSE IF <<dp, lo, hi, -1>> \in CosineRounding THEN -1
       ELSE IF <<dp, lo, hi, 1>> \in CosineRounding THEN 1
       ELSE IF <<dp, lo, hi, 2>> \in CosineRounding THEN 2
       ELSE 0

\* cosineSimilarity(a, b): throws on a length mismatch, 0 on a zero norm,
\* otherwise dotProduct / (normA * normB)
cosineSimilarity(a, b) ==
    IF Len(a) # Len(b) THEN [threw |-> TRUE, value |-> ZeroSimilarity]
    ELSE LET dp == dotProduct(a, b)
             na == dotProduct(a, a)
             nb == dotProduct(b, b)
         IN IF na = 0 \/ nb = 0 \/ dp = 0
            THEN [threw |-> FALSE, value |-> ZeroSimilarity]
            ELSE LET g == gcd(dp * dp, na * nb)
                 IN [threw |-> FALSE,
                     value |-> [s |-> Sign(dp), n |-> (dp * dp) \div g,
                                d |-> (na * nb) \div g,
                                e |-> RoundingOf(dp, na, nb)]]

\* x < y for two similarities
SimLess(x, y) ==
    IF x.s # y.s THEN x.s < y.s
    ELSE IF x.n = y.n /\ x.d = y.d THEN x.e < y.e
    ELSE IF x.s = 1 THEN x.n * y.d < y.n * x.d
    ELSE IF x.s = -1 THEN x.n * y.d > y.n * x.d
    ELSE FALSE

\* the passes of the loop over this.embeddings that push a result
Scored(docs, embs, queryEmbedding, jurisdictions) ==
    SelectSeq(embs,
        LAMBDA e :
            /\ MapHas(docs, e.key)
            /\ ~ ( /\ jurisdictions.given
                   /\ Len(jurisdictions.list) > 0
                   /\ docs[MapGet(docs, e.key)].value.jurisdiction
                          \notin Range(jurisdictions.list) ))

\* Array.prototype.sort with (a, b) => b.similarity - a.similarity: stable,
\* descending
RECURSIVE sortBySimilarity(_)
sortBySimilarity(results) ==
    IF results = <<>> THEN <<>>
    ELSE LET sorted == sortBySimilarity(SubSeq(results, 1, Len(results) - 1))
             last == results[Len(results)]
             before == SelectSeq(sorted, LAMBDA r : ~SimLess(r.similarity, last.similarity))
             after == SelectSeq(sorted, LAMBDA r : SimLess(r.similarity, last.similarity))
         IN before \o <<last>> \o after

\* results.slice(0, limit) for limit >= 0
slice(results, limit) ==
    SubSeq(results, 1, IF limit < Len(results) THEN limit ELSE Len(results))

\* searchSimilar without the sort
searchSimilarUnsorted(docs, embs, queryEmbedding, limit, jurisdictions) ==
    LET scored == Scored(docs, embs, queryEmbedding, jurisdictions)
        results == [n \in 1..Len(scored) |->
                      [document |-> docs[MapGet(docs, scored[n].key)].value,
                       similarity |-> cosineSimilarity(queryEmbedding, scored[n].value).value]]
    IN [threw |-> \E n \in 1..Len(scored) :
                      cosineSimilarity(queryEmbedding, scored[n].value).threw,
        value |-> slice(results, limit)]

searchSimilar(docs, embs, queryEmbedding, limit, jurisdictions) ==
    LET scored == Scored(docs, embs, queryEmbedding, jurisdictions)
        results == [n \in 1..Len(scored) |->
                      [document |-> docs[MapGet(docs, scored[n].key)].value,
                       similarity |-> cosineSimilarity(queryEmbedding, scored[n].value).value]]
    IN [threw |-> \E n \in 1..Len(scored) :
                      cosineSimilarity(queryEmbedding, scored[n].value).threw,
        value |-> slice(sortBySimilarity(results), limit)]

\* vectorStore.searchSimilar(queryEmbedding, limit, jurisdictions); one call
\* is followed on each state of the store, its outcome kept until the store
\* changes
SearchSimilar(queryEmbedding, limit, jurisdictions) ==
    /\ search.pc = "idle"
    /\ LET r == searchSimilar(search.documents, search.embeddings,
                              queryEmbedding, limit, jurisdictions)
       IN search' = [search EXCEPT
              !.pc = IF r.threw THEN "threw" ELSE "returned",
              !.call = [query |-> queryEmbedding, limit |-> limit,
                        jurisdictions |-> jurisdictions],
              !.result = IF r.threw THEN <<>> ELSE r.value]
    /\ UNCHANGED <<routeVars, queryVars, ingestVars, batch, scoring, ag>>

NextSearch ==
    \/ \E document \in StoreRows : AddDocument(document)
    \/ \E q \in QueryEmbeddings, limit \in Limits, js \in AllowLists :
          SearchSimilar(q, limit, js)

----------------------------------------------------------------------------
(* JurisdictionAgent.calculateRelevance.  A string is the sequence of its
   characters.  A score is a double: the record [h, e] is the double that
   lies e units in the last place from the double nearest to h / 100, so
   [h |-> 30, e |-> 0] is 0.3 and [h |-> 30, e |-> 1] is 0.30000000000000004 *)

Double(h, e) == [h |-> h, e |-> e]

\* any double above 1.0
Over == Double(101, 0)

\* a < b and a <= b on doubles
DoubleLess(a, b) == a.h < b.h \/ (a.h = b.h /\ a.e < b.e)
DoubleLeq(a, b) == a = b \/ DoubleLess(a, b)

\* IEEE-754 addition of 0.1, 0.15, 0.2 and 0.3 to the scores that the sums
\* of these four reach up to 1.0: <<h, e, a, e2>> says that [h, e] plus
\* a / 100 is [h + a, e2]
DoubleSums ==
    { <<0, 0, 10, 0>>, <<0, 0, 15, 0>>, <<0, 0, 20, 0>>, <<0, 0, 30, 0>>,
      <<10, 0, 10, 0>>, <<10, 0, 15, 0>>, <<10, 0, 20, 1>>, <<10, 0, 30, 0>>,
      <<15, 0, 10, 0>>, <<15, 0, 15, 0>>, <<15, 0, 20, 0>>, <<15, 0, 30, -1>>,
      <<20, 0, 10, 1>>, <<20, 0, 15, 0>>, <<20, 0, 20, 0>>, <<20, 0, 30, 0>>,
      <<25, 0, 10, 0>>, <<25, 0, 15, 0>>, <<25, 0, 20, 0>>, <<25, 0, 30, 0>>,
      <<30, 0, 10, 0>>, <<30, 0, 15, -1>>, <<30, 0, 20, 0>>, <<30, 0, 30, 0>>,
      <<30, 1, 10, 0>>, <<30, 1, 15, 1>>, <<30, 1, 20, 0>>, <<30, 1, 30, 1>>,
      <<35, 0, 10, -1>>, <<35, 0, 15, 0>>, <<35, 0, 20, 0>>, <<35, 0, 30, -1>>,
      <<40, 0, 10, 0>>, <<40, 0, 15, 0>>, <<40, 0, 20, 1>>, <<40, 0, 30, 0>>,
      <<45, -1, 10, -1>>, <<45, -1, 15, 0>>, <<45, -1, 20, -1>>, <<45, -1, 30, 0>>,
      <<45, 0, 10, 0>>, <<45, 0, 15, 0>>, <<45, 0, 20, 0>>, <<45, 0, 30, 0>>,
      <<45, 1, 10, 0>>, <<45, 1, 15, 1>>, <<45, 1, 20, 1>>, <<45, 1, 30, 0>>,
      <<50, 0, 10, 0>>, <<50, 0, 15, 0>>, <<50, 0, 20, 0>>, <<50, 0, 30, 0>>,
      <<55, -1, 10, -1>>, <<55, -1, 15, 0>>, <<55, -1, 20, 0>>, <<55, -1, 30, -1>>,
      <<55, 0, 10, 0>>, <<55, 0, 15, 1>>, <<55, 0, 20, 0>>, <<55, 0, 30, 1>>,
      <<60, 0, 10, 0>>, <<60, 0, 15, 0>>, <<60, 0, 20, 0>>, <<60, 0, 30, -1>>,
      <<60, 1, 10, 1>>, <<60, 1, 15, 1>>, <<60, 1, 20, 0>>, <<60, 1, 30, 1>>,
      <<65, -1, 10, -1>>, <<65, -1, 15, -1>>, <<65, -1, 20, -1>>, <<65, -1, 30, 0>>,
      <<65, 0, 10, 0>>, <<65, 0, 15, 0>>, <<65, 0, 20, 1>>, <<65, 0, 30, 0>>,
      <<65, 1, 10, 1>>, <<65, 1, 15, 1>>, <<65, 1, 20, 1>>, <<65, 1, 30, 2>>,
      <<70, 0, 10, -1>>, <<70, 0, 15, 0>>, <<70, 0, 20, -1>>, <<70, 0, 30, 0>>,
      <<70, 1, 10, 0>>, <<70, 1, 15, 1>>, <<70, 1, 20, 1>>, <<70, 1, 30, 0>>,
      <<75, -1, 10, -1>>, <<75, -1, 15, -1>>, <<75, -1, 20, 0>>, <<75, 0, 10, 0>>,
      <<75, 0, 15, 0>>, <<75, 0, 20, 0>>, <<75, 1, 10, 1>>, <<75, 1, 15, 1>>,
      <<75, 1, 20, 2>>, <<80, -1, 10, -1>>, <<80, -1, 15, 0>>, <<80, -1, 20, 0>>,
      <<80, 0, 10, 0>>, <<80, 0, 15, 1>>, <<80, 0, 20, 0>>, <<80, 1, 10, 1>>,
      <<80, 1, 15, 2>>, <<80, 1, 20, 1>>, <<85, -1, 10, -1>>, <<85, -1, 15, -1>>,
      <<85, 0, 10, 0>>, <<85, 0, 15, 0>>, <<85, 1, 10, 1>>, <<85, 1, 15, 0>>,
      <<90, -1, 10, -1>>, <<90, 0, 10, 0>>, <<90, 1, 10, 1>> }

\* score += addend / 100
Plus(score, addend) ==
    IF score.h + addend > 100 THEN Over
    ELSE LET sum == CHOOSE t \in DoubleSums :
                        t[1] = score.h /\ t[2] = score.e /\ t[3] = addend
         IN IF score.h + addend = 100 /\ sum[4] > 0 THEN Over
            ELSE Double(score.h + addend, sum[4])

UpperCase == <<"A", "B", "C", "D", "E", "F", "G", "H", "I", "J", "K", "L", "M",
               "N", "O", "P", "Q", "R", "S", "T", "U", "V", "W", "X", "Y", "Z">>
LowerCase == <<"a", "b", "c", "d", "e", "f", "g", "h", "i", "j", "k", "l", "m",
               "n", "o", "p", "q", "r", "s", "t", "u", "v", "w", "x", "y", "z">>

\* String.prototype.toLowerCase
toLowerCase(str) ==
    [n \in 1..Len(str) |->
        IF str[n] \in Range(UpperCase)
        THEN LowerCase[CHOOSE c \in 1..Len(UpperCase) : UpperCase[c] = str[n]]
        ELSE str[n]]

\* String.prototype.includes
includes(str, sub) ==
    \E n \in 0..(Len(str) - Len(sub)) : SubSeq(str, n + 1, n + Len(sub)) = sub

\* the matching of a text against a LIKE pattern as PostgreSQL does it: %
\* stands for any characters, _ for one character and a backslash takes
\* the character after it literally.  The outcome is "true", "false",
\* "abort" (the text ended: no later start can match either) or "error" (the
\* pattern ends with the escape character where the matching reads it)
RECURSIVE MatchText(_, _)
RECURSIVE MatchFrom(_, _, _)
RECURSIVE MatchAfterPercent(_, _)

\* the loop that tries the rest of the pattern at every place of the text
\* that starts with firstpat
MatchFrom(t, p, firstpat) ==
    IF t = <<>> THEN "abort"
    ELSE LET matched == IF t[1] = firstpat THEN MatchText(t, p) ELSE "false"
         IN IF matched # "false" THEN matched
            ELSE MatchFrom(Tail(t), p, firstpat)

\* after a %: further % are skipped and every _ takes one character
MatchAfterPercent(t, p) ==
    IF p = <<>> THEN "true"
    ELSE IF p[1] = "%" THEN MatchAfterPercent(t, Tail(p))
    ELSE IF p[1] = "_"
         THEN IF t = <<>> THEN "abort"
              ELSE MatchAfterPercent(Tail(t), Tail(p))
    ELSE IF p[1] = "\\"
         THEN IF Len(p) < 2 THEN "error" ELSE MatchFrom(t, p, p[2])
    ELSE MatchFrom(t, p, p[1])

MatchText(t, p) ==
    IF t # <<>> /\ p # <<>>
    THEN IF p[1] = "\\"
         THEN IF Len(p) < 2 THEN "error"
              ELSE IF p[2] # t[1] THEN "false"
              ELSE MatchText(Tail(t), Tail(Tail(p)))
         ELSE IF p[1] = "%" THEN MatchAfterPercent(t, Tail(p))
         ELSE IF p[1] = "_" THEN MatchText(Tail(t), Tail(p))
         ELSE IF p[1] # t[1] THEN "false"
         ELSE MatchText(Tail(t), Tail(p))
    ELSE IF t # <<>> THEN "false"
    ELSE IF \A n \in 1..Len(p) : p[n] = "%" THEN "true"
    ELSE "abort"

\* text ILIKE pattern: both are lower-cased, then matched
ilike(text, pattern) == MatchText(toLowerCase(text), toLowerCase(pattern))

\* String.prototype.split(' ')
RECURSIVE split(_)
split(str) ==
    IF \A n \in 1..Len(str) : str[n] # " " THEN <<str>>
    ELSE LET n == CHOOSE m \in 1..Len(str) :
                     /\ str[m] = " "
                     /\ \A j \in 1..(m - 1) : str[j] # " "
         IN <<SubSeq(str, 1, n - 1)>> \o split(SubSeq(str, n + 1, Len(str)))

\* queryWords.forEach: + 0.2 for a title match and + 0.1 for a content
\* match of every word longer than 3
RECURSIVE addWordMatches(_, _, _, _)
addWordMatches(score, queryWords, titleLower, contentLower) ==
    IF queryWords = <<>> THEN score
    ELSE LET word == Head(queryWords)
             s1 == IF Len(word) > 3 /\ includes(titleLower, word)
                   THEN Plus(score, 20) ELSE score
             s2 == IF Len(word) > 3 /\ includes(contentLower, word)
                   THEN Plus(s1, 10) ELSE s1
         IN addWordMatches(s2, Tail(queryWords), titleLower, contentLower)

\* this.specialization.forEach: + 0.15 for every keyword found in the content
RECURSIVE addSpecializationBonus(_, _, _)
addSpecializationBonus(score, specialization, contentLower) ==
    IF specialization = <<>> THEN score
    ELSE addSpecializationBonus(
             IF includes(contentLower, toLowerCase(Head(specialization)))
             THEN Plus(score, 15) ELSE score,
             Tail(specialization), contentLower)

\* Math.min(score, 1.0)
MinScore(score) == IF DoubleLess(score, Double(100, 0)) THEN score ELSE Double(100, 0)

\* the score before the cap
RawRelevance(doc, query, specialization) ==
    LET queryLower == toLowerCase(query)
        titleLower == toLowerCase(doc.title)
        contentLower == toLowerCase(doc.content)
        s0 == IF includes(titleLower, queryLower)
              THEN Plus(Double(0, 0), 30) ELSE Double(0, 0)
        s1 == addWordMatches(s0, split(queryLower), titleLower, contentLower)
    IN addSpecializationBonus(s1, specialization, contentLower)

\* calculateRelevance returning the score uncapped
calculateRelevanceUncapped(doc, query, specialization) ==
    RawRelevance(doc, query, specialization)

calculateRelevance(doc, query, specialization) ==
    MinScore(RawRelevance(doc, query, specialization))

ScoredDocs ==
    { [title |-> <<"E", "U", " ", "A", "I", " ", "A", "c", "t">>,   \* "EU AI Act"
       content |-> <<"T", "h", "e", " ", "A", "I", " ", "A", "c", "t", " ", "c",
                     "o", "v", "e", "r", "s", " ", "h", "i", "g", "h", "-", "r",
                     "i", "s", "k", " ", "A", "I", " ", "a", "n", "d", " ", "G",
                     "D", "P", "R", " ", "d", "a", "t", "a">>],
      [title |-> <<"D", "a", "t", "a", " ", "R", "i", "s", "k">>,   \* "Data Risk"
       content |-> <<"r", "i", "s", "k", " ", "d", "a", "t", "a">>],
      [title |-> <<"G", "D", "P", "R">>,   \* "GDPR"
       content |-> <<>>],
      [title |-> <<"R", "i", "s", "k", " ", "d", "a", "t", "a">>,   \* "Risk data"
       content |-> <<"r", "u", "l", "e", "s", " ", "r", "i", "s", "k">>] }

ScoredQueries ==
    { <<>>,
      <<"a", "i", " ", "a", "c", "t">>,
      <<"r", "i", "s", "k">>,
      <<"d", "a", "t", "a", " ", "r", "i", "s", "k">>,
      <<"r", "u", "l", "e", "s", " ", "r", "i", "s", "k", " ", "d", "a", "t", "a">>,
      <<"r", "i", "s", "k", " ", "d", "a", "t", "a", " ", "r", "i",
        "s", "k", " ", "d", "a", "t", "a">>,
      <<"R", "i", "s", "k", "y", " ", "d", "a", "t", "a">>,
      <<"A", "I", " ", "A", "c", "t", " ", "G", "D", "P", "R">> }

\* the specialization lists of the eu and uk agents
Specializations ==
    { << <<"A", "I", " ", "A", "c", "t">>,
         <<"G", "D", "P", "R">>,
         <<"h", "i", "g", "h", "-", "r", "i", "s", "k", " ", "A", "I">>,
         <<"c", "o", "n", "f", "o", "r", "m", "i", "t", "y", " ", "a",
            "s", "s", "e", "s", "s", "m", "e", "n", "t">> >>,
      << <<"A", "I", " ", "W", "h", "i", "t", "e", " ", "P", "a", "p",
            "e", "r">>,
         <<"p", "r", "i", "n", "c", "i", "p", "l", "e", "s", "-", "b",
            "a", "s", "e", "d", " ", "r", "e", "g", "u", "l", "a", "t",
            "i", "o", "n">>,
         <<"d", "a", "t", "a", " ", "p", "r", "o", "t", "e", "c", "t",
            "i", "o", "n">> >> }

NoScore == [made |-> FALSE, doc |-> [title |-> <<>>, content |-> <<>>],
            query |-> <<>>, specialization |-> <<>>, score |-> Double(0, 0)]

ScoringInit == scoring = [prev |-> NoScore, cur |-> NoScore]

\* an agent with the given specialization scores a document for a query;
\* the two latest calls are kept
CalculateRelevance(doc, query, specialization) ==
    /\ scoring' = [prev |-> scoring.cur,
                   cur |-> [made |-> TRUE, doc |-> doc, query |-> query,
                            specialization |-> specialization,
                            score |-> calculateRelevance(doc, query, specialization)]]
    /\ UNCHANGED <<routeVars, queryVars, ingestVars, batch, search, ag>>

NextScoring ==
    \E doc \in ScoredDocs, query \in ScoredQueries, sp \in Specializations :
        CalculateRelevance(doc, query, sp)

----------------------------------------------------------------------------
(* JurisdictionAgent.processQuery of one agent: retrieval from storage, then
   one generation call.  An error is a record: origin tells which object it
   is, message is the list of the parts of its message *)

NoError == [origin |-> "none", message |-> <<>>]

StorageErrors ==
    { [origin |-> "storage", message |-> <<"connection refused">>],
      [origin |-> "storage", message |-> <<"relation does not exist">>] }

ProviderErrors ==
    { [origin |-> "provider", message |-> <<"429 rate limit">>],
      [origin |-> "provider", message |-> <<"request timed out">>] }

ProviderReplies == {"", "answer"}

\* the eu agent
AgentJurisdiction == <<"e", "u">>
AgentSpecialization == CHOOSE sp \in Specializations : Len(sp) = 4

\* the document of ScoredDocs with the given title, stored under eu
StoredScored(title) ==
    LET d == CHOOSE doc \in ScoredDocs : doc.title = title
    IN [title |-> d.title, content |-> d.content, jurisdiction |-> <<"e", "u">>]

StoredRow1 == StoredScored(<<"E", "U", " ", "A", "I", " ", "A", "c", "t">>)
StoredRow2 == StoredScored(<<"D", "a", "t", "a", " ", "R", "i", "s", "k">>)
StoredRow3 == StoredScored(<<"G", "D", "P", "R">>)
StoredRow4 ==   \* "Risk" / "data" / "eu"
    [title |-> <<"R", "i", "s", "k">>,
     content |-> <<"d", "a", "t", "a">>,
     jurisdiction |-> <<"e", "u">>]
StoredRow5 ==   \* "Act" / "" / "uk"
    [title |-> <<"A", "c", "t">>,
     content |-> <<>>,
     jurisdiction |-> <<"u", "k">>]
StoredRow6 ==   \* "Data Act" / "" / "EU"
    [title |-> <<"D", "a", "t", "a", " ", "A", "c", "t">>,
     content |-> <<>>,
     jurisdiction |-> <<"E", "U">>]
StoredRow7 ==   \* "AI" / "act data" / "eu"
    [title |-> <<"A", "I">>,
     content |-> <<"a", "c", "t", " ", "d", "a", "t", "a">>,
     jurisdiction |-> <<"e", "u">>]
StoredRow8 ==   \* "Risk data" / "high-risk AI" / "eu"
    [title |-> <<"R", "i", "s", "k", " ", "d", "a", "t", "a">>,
     content |-> <<"h", "i", "g", "h", "-", "r", "i", "s", "k", " ", "A", "I">>,
     jurisdiction |-> <<"e", "u">>]

\* what the documents table may hold, in the order storage returns it
AgentStores ==
    { <<>>,
      <<StoredRow5>>,
      <<StoredRow6, StoredRow5>>,
      <<StoredRow3, StoredRow5, StoredRow2, StoredRow1>>,
      <<StoredRow1, StoredRow2, StoredRow3, StoredRow4,
        StoredRow5, StoredRow6, StoredRow7, StoredRow8>> }

\* whether a statement WHERE jurisdiction ILIKE pattern fails on these rows
ilikeThrows(stored, pattern) ==
    \E n \in 1..Len(stored) : ilike(stored[n].jurisdiction, pattern) = "error"

\* storage.getDocumentsByJurisdiction: the rows WHERE jurisdiction ILIKE the
\* argument, which is a pattern
getDocumentsByJurisdiction(stored, jurisdiction) ==
    SelectSeq(stored, LAMBDA doc : ilike(doc.jurisdiction, jurisdiction) = "true")

RetrievalLimit == 5

NoResponse == [content |-> "", sources |-> <<>>,
               metadata |-> [jurisdiction |-> <<>>, documentsUsed |-> 0]]

AgentIdle ==
    [pc |-> "idle", query |-> <<>>, stored |-> <<>>, relevantDocs |-> <<>>,
     storageCalls |-> 0, generationCalls |-> 0,
     raised |-> NoError, error |-> NoError, response |-> NoResponse]

AgentInit == ag = AgentIdle

\* scoredDocs.sort((a, b) => b.score - a.score): stable, descending
RECURSIVE sortByScore(_, _)
sortByScore(docs, query) ==
    IF docs = <<>> THEN <<>>
    ELSE LET sorted == sortByScore(SubSeq(docs, 1, Len(docs) - 1), query)
             last == docs[Len(docs)]
             score(d) == calculateRelevance(d, query, AgentSpecialization)
         IN SelectSeq(sorted, LAMBDA d : DoubleLeq(score(last), score(d)))
            \o <<last>>
            \o SelectSeq(sorted, LAMBDA d : DoubleLess(score(d), score(last)))

\* retrieveRelevantDocuments keeping the order of storage
retrieveRelevantDocumentsUnsorted(query, jurisdictionDocs) ==
    slice(jurisdictionDocs, RetrievalLimit)

\* retrieveRelevantDocuments once storage has returned jurisdictionDocs
retrieveRelevantDocuments(query, jurisdictionDocs) ==
    slice(sortByScore(jurisdictionDocs, query), RetrievalLimit)

\* the AgentResponse built by processQuery
AgentResponse(query, relevantDocs, content) ==
    [content |-> content,
     sources |-> [n \in 1..Len(relevantDocs) |->
                    [title |-> relevantDocs[n].title,
                     relevance |-> calculateRelevance(relevantDocs[n], query,
                                                      AgentSpecialization),
                     tokens |-> Len(relevantDocs[n].content) \div 4]],
     metadata |-> [jurisdiction |-> AgentJurisdiction,
                   documentsUsed |-> Len(relevantDocs)]]

\* a catch block that throws the err it caught
Rethrow(err) == err

\* the catch block of BaseAgent.generateResponse
generateResponseCatch(err) ==
    [origin |-> "BaseAgent.generateResponse",
     message |-> <<"Failed to generate response: ">> \o err.message]

\* the catch block of JurisdictionAgent.processQuery
processQueryCatch(err) == err

\* processQuery is called and awaits storage.getDocumentsByJurisdiction
ProcessQuery(query) ==
    /\ ag.pc = "idle"
    /\ ag' = [AgentIdle EXCEPT !.pc = "retrieving", !.query = query,
                               !.storageCalls = 1]
    /\ UNCHANGED <<routeVars, queryVars, ingestVars, batch, search, scoring>>

\* storage returns: the documents are scored and the generation call made
RetrieveReturn(stored) ==
    /\ ag.pc = "retrieving"
    /\ ag' = [ag EXCEPT
          !.pc = "generating",
          !.stored = stored,
          !.relevantDocs =
              retrieveRelevantDocuments(ag.query,
                  getDocumentsByJurisdiction(stored, AgentJurisdiction)),
          !.generationCalls = @ + 1]
    /\ UNCHANGED <<routeVars, queryVars, ingestVars, batch, search, scoring>>

\* storage throws: processQuery's catch logs and throws
RetrieveThrow(err) ==
    /\ ag.pc = "retrieving"
    /\ ag' = [ag EXCEPT !.pc = "rejected", !.raised = err,
                        !.error = processQueryCatch(err)]
    /\ UNCHANGED <<routeVars, queryVars, ingestVars, batch, search, scoring>>

\* the provider answers: processQuery returns the AgentResponse
GenerateReturn(content) ==
    /\ ag.pc = "generating"
    /\ ag' = [ag EXCEPT !.pc = "fulfilled",
                        !.response = AgentResponse(ag.query, ag.relevantDocs, content)]
    /\ UNCHANGED <<routeVars, queryVars, ingestVars, batch, search, scoring>>

\* the provider throws: generateResponse's catch, then processQuery's catch
GenerateThrow(err) ==
    /\ ag.pc = "generating"
    /\ ag' = [ag EXCEPT !.pc = "rejected", !.raised = err,
                        !.error = processQueryCatch(generateResponseCatch(err))]
    /\ UNCHANGED <<routeVars, queryVars, ingestVars, batch, search, scoring>>

NextAgent ==
    \/ \E query \in ScoredQueries : ProcessQuery(query)
    \/ \E stored \in AgentStores : RetrieveReturn(stored)
    \/ \E err \in StorageErrors : RetrieveThrow(err)
    \/ \E content \in ProviderReplies : GenerateReturn(content)
    \/ \E err \in ProviderErrors : GenerateThrow(err)


----------------------------------------------------------------------------
(* The documents table, the ids held by the VectorStore, and the warm-up
   task started by registerRoutes (DocumentProcessor.initializeVectorStore) *)

MaxOps == 2        \* most ingest and delete requests after start-up
BatchSize == 50

\* how many rows the documents table holds when the process starts
BootSizes == {0, 1, 50, 101}

\* rows a delete request may name
DeleteIds == {1, 102}

Eu == <<"e", "u">>
Uk == <<"u", "k">>
EuUpper == <<"E", "U">>
UsFederal == <<"u", "s", "-", "f", "e", "d", "e", "r", "a", "l">>

\* the jurisdictions getAllDocuments asks storage for, in this order
WarmJurisdictions ==
    << UsFederal,
       <<"c", "a", "l", "i", "f", "o", "r", "n", "i", "a">>,
       <<"c", "o", "l", "o", "r", "a", "d", "o">>,
       Eu, Uk,
       <<"g", "e", "r", "m", "a", "n", "y">> >>

\* the table of a database of n rows
BootRows(n) ==
    {[id |-> id, jurisdiction |-> IF id % 2 = 1 THEN UsFederal
                                  ELSE IF id % 4 = 2 THEN Eu ELSE EuUpper] :
        id \in 1..n}

\* jurisdictions of the documents a request ingests
IngestJurisdictions == {Uk, EuUpper}

\* the :jurisdiction of a delete request: it is used as an ILIKE pattern
DeletePatterns == {EuUpper, <<"u", "_">>, <<"%">>}

NotSearched == [done |-> FALSE, partial |-> FALSE, deleted |-> FALSE]

IndexOff ==
    [boot |-> "off", warm |-> "none", storage |-> {}, nextId |-> 1,
     index |-> {}, pending |-> {}, k |-> 1, allDocuments |-> <<>>, i |-> 0,
     batches |-> <<>>, logged |-> FALSE, ops |-> 0, searched |-> NotSearched]

IndexInit == idx = IndexOff

\* rows by ascending id
RECURSIVE RowsAscending(_)
RowsAscending(rows) ==
    IF rows = {} THEN <<>>
    ELSE LET first == CHOOSE r \in rows : \A q \in rows : r.id <= q.id
         IN <<first>> \o RowsAscending(rows \ {first})

Reverse(seq) == [n \in 1..Len(seq) |-> seq[Len(seq) + 1 - n]]

\* the orders in which a select without ORDER BY may return the rows: the
\* database is free to return any order, of which the model draws the
\* ascending and the descending one
RowsInOrder(rows) == {RowsAscending(rows), Reverse(RowsAscending(rows))}

\* the rows of the table WHERE jurisdiction ILIKE pattern
RowsLike(rows, pattern) ==
    LET matching == {j \in {r.jurisdiction : r \in rows} : ilike(j, pattern) = "true"}
    IN {r \in rows : r.jurisdiction \in matching}

\* whether a statement WHERE jurisdiction ILIKE pattern fails on the table
LikeThrows(rows, pattern) ==
    \E j \in {r.jurisdiction : r \in rows} : ilike(j, pattern) = "error"

\* the process starts: registerRoutes runs on a database of n rows
Boot(n) ==
    /\ idx.boot = "off"
    /\ idx' = [idx EXCEPT !.boot = "starting", !.storage = BootRows(n),
                          !.nextId = n + 1]
    /\ UNCHANGED <<queryVars, ingestVars, auxVars, sess, conv>>

\* initializeVectorStore awaiting the whole warm-up before it returns
InitializeVectorStoreAwaited ==
    /\ idx.boot = "starting"
    /\ idx.warm = "none"
    /\ idx' = [idx EXCEPT !.warm = "scheduled"]
    /\ UNCHANGED <<queryVars, ingestVars, auxVars, sess, conv>>

\* initializeVectorStore: setImmediate schedules the warm-up and the call
\* returns; registerRoutes goes on and the service accepts requests
InitializeVectorStore ==
    /\ idx.boot = "starting"
    /\ idx.warm = "none"
    /\ idx' = [idx EXCEPT !.warm = "scheduled", !.boot = "ready"]
    /\ UNCHANGED <<queryVars, ingestVars, auxVars, sess, conv>>

\* the warm-up callback: getAllDocuments asks storage for the next
\* jurisdiction; a storage error lands in the catch and is logged
WarmFetch(ok) ==
    /\ idx.warm \in {"scheduled", "fetching"}
    /\ IF ~ok
       THEN idx' = [idx EXCEPT !.warm = "failed", !.logged = TRUE]
       ELSE \E docs \in RowsInOrder(RowsLike(idx.storage, WarmJurisdictions[idx.k])) :
               idx' = [idx EXCEPT
                   !.allDocuments = @ \o docs,
                   !.k = @ + 1,
                   !.warm = IF idx.k < Len(WarmJurisdictions)
                            THEN "fetching" ELSE "loading"]
    /\ UNCHANGED <<queryVars, ingestVars, auxVars, sess, conv>>

\* one pass of the loop: the next batchSize documents are added, then the
\* task waits 100 ms when documents remain
WarmBatch ==
    /\ idx.warm = "loading"
    /\ IF idx.i < Len(idx.allDocuments)
       THEN LET last == IF idx.i + BatchSize < Len(idx.allDocuments)
                        THEN idx.i + BatchSize ELSE Len(idx.allDocuments)
                b == SubSeq(idx.allDocuments, idx.i + 1, last)
            IN idx' = [idx EXCEPT
                   !.index = @ \cup Range(b),
                   !.batches = Append(@, b),
                   !.warm = IF idx.i + BatchSize < Len(idx.allDocuments)
                            THEN "pause" ELSE "loading",
                   !.i = @ + BatchSize]
       ELSE idx' = [idx EXCEPT !.warm = "warmed"]
    /\ UNCHANGED <<queryVars, ingestVars, auxVars, sess, conv>>

\* the 100 ms timer fires
WarmResume ==
    /\ idx.warm = "pause"
    /\ idx' = [idx EXCEPT !.warm = "loading"]
    /\ UNCHANGED <<queryVars, ingestVars, auxVars, sess, conv>>

\* a request ingests a document: processDocument's storage.createDocument
\* returns the stored row
IngestRow(jurisdiction) ==
    /\ idx.boot = "ready"
    /\ idx.ops < MaxOps
    /\ LET row == [id |-> idx.nextId, jurisdiction |-> jurisdiction]
       IN idx' = [idx EXCEPT !.storage = @ \cup {row}, !.pending = @ \cup {row},
                             !.nextId = @ + 1, !.ops = @ + 1]
    /\ UNCHANGED <<queryVars, ingestVars, auxVars, sess, conv>>

\* processDocument goes on after the await: vectorStore.addDocument
\* registers the row it was given
IndexRow(row) ==
    /\ row \in idx.pending
    /\ idx' = [idx EXCEPT !.index = @ \cup {row}, !.pending = @ \ {row}]
    /\ UNCHANGED <<queryVars, ingestVars, auxVars, sess, conv>>

\* DELETE /api/documents/:id: storage.deleteDocument
DeleteDocument(id) ==
    /\ idx.boot = "ready"
    /\ idx.ops < MaxOps
    /\ \E r \in idx.storage : r.id = id
    /\ idx' = [idx EXCEPT !.storage = {r \in @ : r.id # id}, !.ops = @ + 1]
    /\ UNCHANGED <<queryVars, ingestVars, auxVars, sess, conv>>

\* DELETE /api/documents/jurisdiction/:jurisdiction:
\* storage.deleteDocumentsByJurisdiction, which the route calls when
\* getDocumentsByJurisdiction has returned documents, deletes the rows
\* WHERE jurisdiction ILIKE the parameter (a statement that fails changes
\* nothing)
DeleteDocumentsByJurisdiction(jurisdiction) ==
    /\ idx.boot = "ready"
    /\ idx.ops < MaxOps
    /\ RowsLike(idx.storage, jurisdiction) # {}
    /\ ~LikeThrows(idx.storage, jurisdiction)
    /\ idx' = [idx EXCEPT !.storage = @ \ RowsLike(@, jurisdiction),
                          !.ops = @ + 1]
    /\ UNCHANGED <<queryVars, ingestVars, auxVars, sess, conv>>

\* a request is served from the vector store as it is
ServeSearch ==
    /\ idx.boot = "ready"
    /\ idx' = [idx EXCEPT !.searched =
                  [done |-> TRUE,
                   partial |-> idx.storage \ idx.index # {},
                   deleted |-> idx.index \ idx.storage # {}]]
    /\ UNCHANGED <<queryVars, ingestVars, auxVars, sess, conv>>

NextIndex ==
    \/ \E n \in BootSizes : Boot(n)
    \/ InitializeVectorStore
    \/ \E ok \in BOOLEAN : WarmFetch(ok)
    \/ WarmBatch
    \/ WarmResume
    \/ \E j \in IngestJurisdictions : IngestRow(j)
    \/ \E row \in idx.pending : IndexRow(row)
    \/ \E id \in DeleteIds : DeleteDocument(id)
    \/ \E j \in DeletePatterns : DeleteDocumentsByJurisdiction(j)
    \/ ServeSearch

\* ---------------------------------------------------------------------
\* Agent sessions: the routes that ingest or delete documents and then
\* rewrite the session of the jurisdiction.  A handler runs up to its next
\* await; the handlers of concurrent requests interleave at the awaits.
\* ---------------------------------------------------------------------

MaxReq == 2

Two == <<"2">>
Ten == <<"1", "0">>

\* jurisdictions that are names of properties of Object.prototype
Constructor ==
    <<"c", "o", "n", "s", "t", "r", "u", "c", "t", "o", "r">>
ProtoKey ==
    <<"_", "_", "p", "r", "o", "t", "o", "_", "_">>

\* a JavaScript value that is a number or a string
Num(n) == [type |-> "number", n |-> n, s |-> <<>>]
Str(s) == [type |-> "string", n |-> 0, s |-> s]

\* titles and contents of documents
Seed1 == <<"s", "e", "e", "d", "1">>
Seed1Notes == <<"s", "e", "e", "d", "1", " ", "n", "o", "t", "e", "s">>
Fresh == <<"f", "r", "e", "s", "h">>
Untitled == <<"d", "o", "c">>
Text == <<"t", "e", "x", "t">>

NoSession == [agentId |-> <<>>, status |-> "none",
              documentsCount |-> 0, embeddingsCount |-> 0]

Session(agentId, status, count) ==
    [agentId |-> agentId, status |-> status,
     documentsCount |-> count, embeddingsCount |-> count]

NoDocument == [id |-> 0, jurisdiction |-> <<>>, title |-> <<>>, content |-> <<>>]

\* the tables before the first request: the sessions and the documents
SessionSeeds ==
    { [sessions |-> <<>>, documents |-> <<>>],
      [sessions |-> <<Session(Eu, "active", 2), Session(Uk, "idle", 0)>>,
       documents |-> <<[id |-> 1, jurisdiction |-> Eu, title |-> Seed1,
                        content |-> Text],
                       [id |-> 2, jurisdiction |-> Eu, title |-> Seed1Notes,
                        content |-> Text]>>],
      [sessions |-> <<Session(Eu, "idle", 0), Session(Constructor, "active", 0)>>,
       documents |-> <<>>] }

\* a document handed to processDocument; ok tells whether processDocument
\* stores it or throws, n is its position in the request
Item(jurisdiction, ok) ==
    [jurisdiction |-> jurisdiction, ok |-> ok, title |-> Untitled,
     content |-> Text, newer |-> FALSE, downloads |-> TRUE, n |-> 0]

\* a file of the Drive folder: newer tells whether it was modified after
\* the stored document of its name was created, downloads whether
\* downloadFileContent returns
File(title, newer, downloads, ok) ==
    [jurisdiction |-> <<>>, ok |-> ok, title |-> title,
     content |-> Text, newer |-> newer, downloads |-> downloads, n |-> 0]

\* the documents of a bulk request
ItemLists ==
    { <<Item(ProtoKey, TRUE), Item(Eu, FALSE)>>,
      <<Item(Uk, TRUE), Item(Eu, TRUE)>>,
      <<Item(Ten, TRUE), Item(Two, TRUE)>>,
      <<Item(Constructor, TRUE)>> }

\* no record handed to createOrUpdateAgentSession yet
NoPayload ==
    [agentId |-> <<>>, status |-> "none",
     documentsCount |-> Num(0), embeddingsCount |-> Num(0)]

\* the supported files of a Drive folder
FileLists ==
    { <<File(Fresh, FALSE, FALSE, TRUE)>>,
      <<File(Seed1, TRUE, TRUE, TRUE)>>,
      <<File(Seed1, FALSE, TRUE, TRUE), File(Seed1Notes, TRUE, TRUE, FALSE)>> }

RequestIdle ==
    [kind |-> "none", pc |-> "idle", jurisdiction |-> <<>>, id |-> 0,
     todo |-> <<>>, results |-> <<>>, updates |-> <<>>,
     agentSession |-> NoSession, payload |-> NoPayload, existing |-> FALSE,
     code |-> 0]

SessionsOff ==
    [boot |-> "off", seed |-> [sessions |-> <<>>, documents |-> <<>>],
     sessions |-> <<>>, documents |-> <<>>, nextId |-> 1,
     reqs |-> [r \in 1..MaxReq |-> RequestIdle]]

SessionsInit == sess = SessionsOff

\* storage.getAgentSession: the first row the select returns for the agent,
\* if any.  The select has no ORDER BY, so with several rows of the agent
\* any of them can come first.
getAgentSession(sessions, agentId) ==
    LET found == SelectSeq(sessions, LAMBDA s : s.agentId = agentId)
    IN IF found = <<>> THEN {NoSession}
       ELSE {found[i] : i \in 1..Len(found)}

\* storage.getDocument
getDocument(docs, id) ==
    LET found == SelectSeq(docs, LAMBDA d : d.id = id)
    IN IF found = <<>> THEN NoDocument ELSE found[1]

\* DatabaseStorage.calculateRelevanceScore
calculateRelevanceScore(doc, query) ==
    (IF includes(toLowerCase(doc.title), query) THEN 2 ELSE 0)
    + (IF includes(toLowerCase(doc.content), query) THEN 1 ELSE 0)

\* storage.searchDocuments(query, [jurisdiction], 1): the document that
\* comes first when the documents of the jurisdiction (compared as it is
\* written) are sorted by score, or NoDocument when there is none.  The
\* select has no ORDER BY and the sort is stable, so any document of the
\* highest score can come first.
searchDocuments(docs, query, jurisdiction) ==
    LET queryLower == toLowerCase(query)
        filteredDocs == {n \in 1..Len(docs) : docs[n].jurisdiction = jurisdiction}
        score(n) == calculateRelevanceScore(docs[n], queryLower)
    IN IF filteredDocs = {} THEN {NoDocument}
       ELSE {docs[n] : n \in {m \in filteredDocs :
                                \A k \in filteredDocs : score(k) <= score(m)}}

Digits == <<"0", "1", "2", "3", "4", "5", "6", "7", "8", "9">>

\* a < b for two strings of digits of the same length
DigitsLess(a, b) ==
    \E n \in 1..Len(a) :
        /\ \A m \in 1..(n - 1) : a[m] = b[m]
        /\ \E x, y \in 1..10 : Digits[x] = a[n] /\ Digits[y] = b[n] /\ x < y

\* whether a property key is an integer index: the decimal form, without
\* leading zero, of an integer from 0 to 2^32 - 2
IsIntegerIndex(key) ==
    /\ key # <<>>
    /\ \A n \in 1..Len(key) : key[n] \in Range(Digits)
    /\ Len(key) = 1 \/ key[1] # "0"
    /\ \/ Len(key) < 10
       \/ /\ Len(key) = 10
          /\ ~DigitsLess(<<"4", "2", "9", "4", "9", "6", "7", "2", "9", "4">>, key)

\* a < b for two integer indices
IndexLess(a, b) == Len(a) < Len(b) \/ (Len(a) = Len(b) /\ DigitsLess(a, b))

\* the entries whose keys are integer indices, in ascending order of key
RECURSIVE IndexEntries(_)
IndexEntries(entries) ==
    IF entries = <<>> THEN <<>>
    ELSE LET n == CHOOSE m \in 1..Len(entries) :
                     \A k \in 1..Len(entries) :
                        k # m => IndexLess(entries[m].agentId, entries[k].agentId)
         IN <<entries[n]>>
            \o IndexEntries(SelectSeq(entries, LAMBDA e : e # entries[n]))

\* Object.entries: the integer indices in ascending order, then the other
\* keys in the order in which they were added
ObjectEntries(entries) ==
    IndexEntries(SelectSeq(entries, LAMBDA e : IsIntegerIndex(e.agentId)))
    \o SelectSeq(entries, LAMBDA e : ~IsIntegerIndex(e.agentId))

\* the decimal form of a natural number
RECURSIVE DecimalDigits(_)
DecimalDigits(n) ==
    IF n < 10 THEN <<Digits[n + 1]>>
    ELSE Append(DecimalDigits(n \div 10), Digits[(n % 10) + 1])

\* the string a value becomes when it is added to a string
JsToString(v) ==
    IF v.type = "string" THEN v.s
    ELSE IF v.n < 0 THEN <<"-">> \o DecimalDigits(-v.n)
    ELSE DecimalDigits(v.n)

\* a + b: the sum of two numbers, the concatenation when one is a string
JsAdd(a, b) ==
    IF a.type = "number" /\ b.type = "number" THEN Num(a.n + b.n)
    ELSE Str(JsToString(a) \o JsToString(b))

ObjectName ==
    <<"O", "b", "j", "e", "c", "t">>

\* the functions every object inherits from Object.prototype under their
\* own names
ObjectPrototypeMethods ==
    { <<"h", "a", "s", "O", "w", "n", "P", "r", "o", "p", "e", "r", "t",
        "y">>,
      <<"i", "s", "P", "r", "o", "t", "o", "t", "y", "p", "e", "O", "f">>,
      <<"p", "r", "o", "p", "e", "r", "t", "y", "I", "s", "E", "n", "u",
        "m", "e", "r", "a", "b", "l", "e">>,
      <<"t", "o", "L", "o", "c", "a", "l", "e", "S", "t", "r", "i", "n",
        "g">>,
      <<"t", "o", "S", "t", "r", "i", "n", "g">>,
      <<"v", "a", "l", "u", "e", "O", "f">>,
      <<"_", "_", "d", "e", "f", "i", "n", "e", "G", "e", "t", "t", "e",
        "r", "_", "_">>,
      <<"_", "_", "d", "e", "f", "i", "n", "e", "S", "e", "t", "t", "e",
        "r", "_", "_">>,
      <<"_", "_", "l", "o", "o", "k", "u", "p", "G", "e", "t", "t", "e",
        "r", "_", "_">>,
      <<"_", "_", "l", "o", "o", "k", "u", "p", "S", "e", "t", "t", "e",
        "r", "_", "_">> }

\* a built-in function as a string
NativeCode(name) ==
    <<"f", "u", "n", "c", "t", "i", "o", "n", " ">> \o name
    \o <<"(", ")", " ", "{", " ", "[", "n", "a", "t", "i", "v", "e", " ",
      "c", "o", "d", "e", "]", " ", "}">>

\* jurisdictionCounts[key] || 0 for a key the object does not hold itself,
\* as the + that follows takes it: Object.prototype under __proto__, the
\* inherited function under the name of one, 0 under any other key
Inherited(key) ==
    IF key = ProtoKey
    THEN Str(<<"[", "o", "b", "j", "e", "c", "t", " ", "O", "b", "j", "e", "c",
      "t", "]">>)
    ELSE IF key = Constructor THEN Str(NativeCode(ObjectName))
    ELSE IF key \in ObjectPrototypeMethods THEN Str(NativeCode(key))
    ELSE Num(0)

\* results.forEach on the plain object: the value under the jurisdiction,
\* the object's own or the inherited one, plus 1 is assigned under the
\* jurisdiction.  A key is added at its first assignment; the assignment to
\* __proto__ of a string sets nothing
RECURSIVE forEachResult(_, _)
forEachResult(counts, results) ==
    IF results = <<>> THEN counts
    ELSE LET j == Head(results)
             own == SelectSeq(counts, LAMBDA e : e.agentId = j)
             count == JsAdd(IF own = <<>> THEN Inherited(j) ELSE own[1].count,
                            Num(1))
             assigned ==
                 IF j = ProtoKey THEN counts
                 ELSE IF own = <<>>
                 THEN Append(counts, [agentId |-> j, count |-> count])
                 ELSE [i \in 1..Len(counts) |->
                          IF counts[i].agentId = j
                          THEN [agentId |-> j, count |-> count]
                          ELSE counts[i]]
         IN forEachResult(assigned, Tail(results))

\* the bulk route's jurisdictionCounts after results.forEach, in the order
\* in which the keys were added
CountByJurisdiction(results) == forEachResult(<<>>, results)

\* the bulk route's jurisdictionCounts as Object.entries walks it
jurisdictionCounts(results) == ObjectEntries(CountByJurisdiction(results))

\* the tables as they are when the first request arrives
SeedSessions(seed) ==
    /\ sess.boot = "off"
    /\ sess' = [sess EXCEPT !.boot = "ready", !.seed = seed,
                            !.sessions = seed.sessions,
                            !.documents = seed.documents,
                            !.nextId = Len(seed.documents) + 1]
    /\ UNCHANGED <<queryVars, ingestVars, auxVars, idx, conv>>

\* the requests come from two clients in turn; a client sends its next
\* request when its previous one was answered
Client(r) == IF r % 2 = 1 THEN "a" ELSE "b"

\* requests are numbered in the order of arrival
Arrives(r) ==
    /\ sess.boot = "ready"
    /\ sess.reqs[r].pc = "idle"
    /\ \A q \in 1..(r - 1) :
          /\ sess.reqs[q].pc # "idle"
          /\ Client(q) = Client(r) => sess.reqs[q].pc = "done"

Ingestion(kind, jurisdiction, items) ==
    [RequestIdle EXCEPT
        !.kind = kind,
        !.pc = IF kind = "sync" THEN "search" ELSE "process",
        !.jurisdiction = jurisdiction,
        !.todo = [n \in 1..Len(items) |-> [items[n] EXCEPT !.n = n]]]

\* POST /api/documents, up to the call of processDocument
PostDocument(r, jurisdiction, ok) ==
    /\ Arrives(r)
    /\ sess' = [sess EXCEPT !.reqs[r] =
                  Ingestion("create", jurisdiction, <<Item(jurisdiction, ok)>>)]
    /\ UNCHANGED <<queryVars, ingestVars, auxVars, idx, conv>>

\* POST /api/documents/upload, up to the first file: every document gets
\* the lower-cased jurisdiction
PostUpload(r, jurisdiction, oks) ==
    /\ Arrives(r)
    /\ oks # <<>>
    /\ sess' = [sess EXCEPT !.reqs[r] =
                  Ingestion("upload", toLowerCase(jurisdiction),
                            [i \in 1..Len(oks) |->
                                Item(toLowerCase(jurisdiction), oks[i])])]
    /\ UNCHANGED <<queryVars, ingestVars, auxVars, idx, conv>>

\* POST /api/documents/bulk, up to the await of processMultipleDocuments,
\* which has started processDocument for every document
PostBulk(r, items) ==
    /\ Arrives(r)
    /\ items # <<>>
    /\ sess' = [sess EXCEPT !.reqs[r] = Ingestion("bulk", <<>>, items)]
    /\ UNCHANGED <<queryVars, ingestVars, auxVars, idx, conv>>

\* POST /api/google-drive/sync once the connection is tested and
\* syncFolderDocuments has listed the supported files of the folder, up to
\* the search for the first file
PostSync(r, jurisdiction, files) ==
    /\ Arrives(r)
    /\ files # <<>>
    /\ sess' = [sess EXCEPT !.reqs[r] =
                  Ingestion("sync", jurisdiction,
                            [i \in 1..Len(files) |->
                                [files[i] EXCEPT !.jurisdiction = jurisdiction]])]
    /\ UNCHANGED <<queryVars, ingestVars, auxVars, idx, conv>>

\* the jurisdictions of the stored documents, in the order of the request
Jurisdictions(results) == [k \in 1..Len(results) |-> results[k].jurisdiction]

\* the session updates an ingestion route makes for its stored documents:
\* one per jurisdiction for the bulk route, one for the others when at
\* least one document was stored
SessionUpdates(req, results) ==
    IF req.kind = "bulk" THEN jurisdictionCounts(Jurisdictions(results))
    ELSE IF results = <<>> THEN <<>>
    ELSE <<[agentId |-> req.jurisdiction, count |-> Num(Len(results))]>>

\* the request is done with the item at place k of its list: it goes on
\* with the items that are left, or turns to the sessions
Proceed(req, k, results) ==
    LET todo == SubSeq(req.todo, 1, k - 1) \o SubSeq(req.todo, k + 1, Len(req.todo))
        updates == SessionUpdates(req, results)
    IN IF todo # <<>>
       THEN [req EXCEPT !.todo = todo, !.results = results,
                        !.pc = IF req.kind = "sync" THEN "search" ELSE "process"]
       ELSE [req EXCEPT !.todo = <<>>, !.results = results,
                        !.updates = updates,
                        !.pc = IF updates = <<>> THEN "done" ELSE "read",
                        !.code = IF updates = <<>> THEN 200 ELSE 0]

\* syncFolderDocuments: storage.searchDocuments returns for the next file.
\* A file whose stored document is not older is skipped, and so is one
\* whose download throws; the stored document of a file that is newer is
\* deleted before the file is processed
SyncSearch(r) ==
    LET req == sess.reqs[r]
        file == Head(req.todo)
    IN /\ req.pc = "search"
       /\ \E first \in searchDocuments(sess.documents, file.title, req.jurisdiction) :
             LET existingDoc ==
                     IF first.title = file.title /\ first.jurisdiction = req.jurisdiction
                     THEN first ELSE NoDocument
             IN sess' = [sess EXCEPT !.reqs[r] =
                   IF (existingDoc # NoDocument /\ ~file.newer) \/ ~file.downloads
                   THEN Proceed(req, 1, req.results)
                   ELSE IF existingDoc # NoDocument
                   THEN [req EXCEPT !.pc = "replace", !.id = existingDoc.id]
                   ELSE [req EXCEPT !.pc = "process"]]
       /\ UNCHANGED <<queryVars, ingestVars, auxVars, idx, conv>>

\* syncFolderDocuments: storage.deleteDocument(existingDoc.id)
SyncDelete(r) ==
    LET req == sess.reqs[r]
    IN /\ req.pc = "replace"
       /\ sess' = [sess EXCEPT
             !.documents = SelectSeq(@, LAMBDA d : d.id # req.id),
             !.reqs[r] = [req EXCEPT !.pc = "process"]]
       /\ UNCHANGED <<queryVars, ingestVars, auxVars, idx, conv>>

\* results with the item added at its place in the order of the request
WithResult(results, item) ==
    SelectSeq(results, LAMBDA x : x.n < item.n)
    \o <<item>>
    \o SelectSeq(results, LAMBDA x : x.n > item.n)

\* processDocument settles for the item at place k of the list: the
\* document is stored when it succeeds; a failure ends POST /api/documents
\* with a 500 and is skipped by the other routes.  The bulk route has
\* started all its documents at once, so any of them can settle next; the
\* other routes process one document after the other.
ProcessItem(r, k) ==
    LET req == sess.reqs[r]
        item == req.todo[k]
        results == IF item.ok THEN WithResult(req.results, item)
                   ELSE req.results
    IN /\ req.pc = "process"
       /\ k \in 1..Len(req.todo)
       /\ req.kind = "bulk" \/ k = 1
       /\ sess' = [sess EXCEPT
             !.documents = IF item.ok
                           THEN Append(@, [id |-> sess.nextId,
                                           jurisdiction |-> item.jurisdiction,
                                           title |-> item.title,
                                           content |-> item.content])
                           ELSE @,
             !.nextId = IF item.ok THEN @ + 1 ELSE @,
             !.reqs[r] =
                 IF req.kind = "create" /\ ~item.ok
                 THEN [req EXCEPT !.todo = <<>>, !.pc = "done", !.code = 500]
                 ELSE Proceed(req, k, results)]
       /\ UNCHANGED <<queryVars, ingestVars, auxVars, idx, conv>>

\* DELETE /api/documents/:id, up to the call of storage.getDocument
DeleteById(r, id) ==
    /\ Arrives(r)
    /\ sess' = [sess EXCEPT !.reqs[r] =
                  [RequestIdle EXCEPT !.kind = "deleteId", !.pc = "getDocument",
                                      !.id = id]]
    /\ UNCHANGED <<queryVars, ingestVars, auxVars, idx, conv>>

\* storage.getDocument returns: 404 when there is no such document
RouteGetDocument(r) ==
    LET req == sess.reqs[r]
        document == getDocument(sess.documents, req.id)
    IN /\ req.pc = "getDocument"
       /\ sess' = [sess EXCEPT !.reqs[r] =
             IF document.id = 0
             THEN [req EXCEPT !.pc = "done", !.code = 404]
             ELSE [req EXCEPT !.pc = "delete",
                              !.jurisdiction = document.jurisdiction]]
       /\ UNCHANGED <<queryVars, ingestVars, auxVars, idx, conv>>

\* storage.deleteDocument
RouteDeleteDocument(r) ==
    LET req == sess.reqs[r]
    IN /\ req.pc = "delete"
       /\ sess' = [sess EXCEPT
             !.documents = SelectSeq(@, LAMBDA d : d.id # req.id),
             !.reqs[r] = [req EXCEPT
                 !.pc = "read",
                 !.updates = <<[agentId |-> req.jurisdiction, count |-> Num(1)]>>]]
       /\ UNCHANGED <<queryVars, ingestVars, auxVars, idx, conv>>

\* the record a route hands to createOrUpdateAgentSession after reading the
\* session: the ingestion routes add the count to both counters and set the
\* status to active, the delete-by-id route takes one off both and keeps the
\* status.  The counters are what the + gives: a number, or a string when
\* the count is one
SessionPayload(kind, agentSession, count) ==
    IF kind = "deleteId"
    THEN [agentId |-> agentSession.agentId, status |-> agentSession.status,
          documentsCount |-> Num(agentSession.documentsCount - 1),
          embeddingsCount |-> Num(agentSession.embeddingsCount - 1)]
    ELSE [agentId |-> agentSession.agentId, status |-> "active",
          documentsCount |-> JsAdd(Num(agentSession.documentsCount), count),
          embeddingsCount |-> JsAdd(Num(agentSession.embeddingsCount), count)]

\* a delete-by-id route that rewrites whatever session it has read
RewritesUnguarded(kind, agentSession) == agentSession # NoSession

\* whether the route rewrites the session it has read
Rewrites(kind, agentSession) ==
    /\ agentSession # NoSession
    /\ kind = "deleteId" => agentSession.documentsCount > 0

\* the request has no session left to handle
Responded(req) ==
    [req EXCEPT !.updates = <<>>, !.pc = "done", !.code = 200]

\* the catch block of a route: the response is a 500
Failed(req) ==
    [req EXCEPT !.updates = <<>>, !.pc = "done", !.code = 500]

\* the route's storage.getAgentSession returns
RouteGetAgentSession(r) ==
    LET req == sess.reqs[r]
        update == Head(req.updates)
    IN /\ req.pc = "read"
       /\ \E agentSession \in getAgentSession(sess.sessions, update.agentId) :
          sess' = [sess EXCEPT !.reqs[r] =
             IF Rewrites(req.kind, agentSession)
             THEN [req EXCEPT
                     !.agentSession = agentSession,
                     !.payload = SessionPayload(req.kind, agentSession,
                                                update.count),
                     !.pc = "lookup"]
             ELSE IF Tail(req.updates) = <<>> THEN Responded(req)
             ELSE [req EXCEPT !.updates = Tail(@)]]
       /\ UNCHANGED <<queryVars, ingestVars, auxVars, idx, conv>>

\* DELETE /api/documents/jurisdiction/:jurisdiction, up to the call of
\* storage.getDocumentsByJurisdiction
DeleteByJurisdiction(r, jurisdiction) ==
    /\ Arrives(r)
    /\ sess' = [sess EXCEPT !.reqs[r] =
                  [RequestIdle EXCEPT !.kind = "deleteJurisdiction",
                                      !.pc = "count",
                                      !.jurisdiction = jurisdiction]]
    /\ UNCHANGED <<queryVars, ingestVars, auxVars, idx, conv>>

\* storage.getDocumentsByJurisdiction returns or throws: nothing more is
\* done when no document matches the parameter
RouteCountDocuments(r) ==
    LET req == sess.reqs[r]
        documentCount ==
            Len(getDocumentsByJurisdiction(sess.documents, req.jurisdiction))
    IN /\ req.pc = "count"
       /\ sess' = [sess EXCEPT !.reqs[r] =
             IF ilikeThrows(sess.documents, req.jurisdiction) THEN Failed(req)
             ELSE IF documentCount = 0 THEN Responded(req)
             ELSE [req EXCEPT !.pc = "deleteAll"]]
       /\ UNCHANGED <<queryVars, ingestVars, auxVars, idx, conv>>

\* the record the delete-by-jurisdiction route writes
ResetPayload(jurisdiction) ==
    [agentId |-> jurisdiction, status |-> "inactive",
     documentsCount |-> Num(0), embeddingsCount |-> Num(0)]

\* storage.deleteDocumentsByJurisdiction returns or throws: the documents
\* that match the parameter are deleted
RouteDeleteAll(r) ==
    LET req == sess.reqs[r]
    IN /\ req.pc = "deleteAll"
       /\ IF ilikeThrows(sess.documents, req.jurisdiction)
          THEN sess' = [sess EXCEPT !.reqs[r] = Failed(req)]
          ELSE sess' = [sess EXCEPT
                 !.documents =
                     SelectSeq(@, LAMBDA d :
                         ilike(d.jurisdiction, req.jurisdiction) # "true"),
                 !.reqs[r] = [req EXCEPT
                     !.updates = <<[agentId |-> req.jurisdiction, count |-> Num(0)]>>,
                     !.payload = ResetPayload(req.jurisdiction),
                     !.pc = "lookup"]]
       /\ UNCHANGED <<queryVars, ingestVars, auxVars, idx, conv>>

\* createOrUpdateAgentSession: its own getAgentSession returns
CreateOrUpdateLookup(r) ==
    LET req == sess.reqs[r]
    IN /\ req.pc = "lookup"
       /\ sess' = [sess EXCEPT !.reqs[r] =
             [req EXCEPT
                 !.existing =
                     getAgentSession(sess.sessions, req.payload.agentId)
                         # {NoSession},
                 !.pc = "apply"]]
       /\ UNCHANGED <<queryVars, ingestVars, auxVars, idx, conv>>

\* whether the database takes the record: documents_count and
\* embeddings_count are integer columns, and the statement that binds a
\* string that is no integer to one of them is rejected
Storable(payload) ==
    /\ payload.documentsCount.type = "number"
    /\ payload.embeddingsCount.type = "number"

\* the row of agent_sessions a record with numeric counters makes
Row(payload) ==
    [agentId |-> payload.agentId, status |-> payload.status,
     documentsCount |-> payload.documentsCount.n,
     embeddingsCount |-> payload.embeddingsCount.n]

\* createOrUpdateAgentSession: the update of every row of the agent, or the
\* insert of a new row
createOrUpdateAgentSession(sessions, existing, row) ==
    IF existing
    THEN [i \in 1..Len(sessions) |->
            IF sessions[i].agentId = row.agentId THEN row ELSE sessions[i]]
    ELSE Append(sessions, row)

\* a read-modify-write made in one step: the counters are taken from the
\* session as it is at the time of the write
CreateOrUpdateApplyAtomic(r) ==
    LET req == sess.reqs[r]
        current == CHOOSE s \in getAgentSession(sess.sessions,
                                                 req.payload.agentId) : TRUE
        row == IF req.kind # "deleteJurisdiction" /\ current # NoSession
               THEN SessionPayload(req.kind, current, Head(req.updates).count)
               ELSE req.payload
    IN /\ req.pc = "apply"
       /\ IF ~Storable(row)
          THEN sess' = [sess EXCEPT !.reqs[r] = Failed(req)]
          ELSE sess' = [sess EXCEPT
                 !.sessions = createOrUpdateAgentSession(@, req.existing, Row(row)),
                 !.reqs[r] = IF Tail(req.updates) = <<>> THEN Responded(req)
                             ELSE [req EXCEPT !.updates = Tail(@), !.pc = "read"]]
       /\ UNCHANGED <<queryVars, ingestVars, auxVars, idx, conv>>

\* createOrUpdateAgentSession's update or insert returns, and the route
\* goes on to its next session or responds; or the statement is rejected,
\* createOrUpdateAgentSession throws and the route's catch block responds
CreateOrUpdateApply(r) ==
    LET req == sess.reqs[r]
    IN /\ req.pc = "apply"
       /\ IF ~Storable(req.payload)
          THEN sess' = [sess EXCEPT !.reqs[r] = Failed(req)]
          ELSE sess' = [sess EXCEPT
                 !.sessions = createOrUpdateAgentSession(@, req.existing,
                                                         Row(req.payload)),
                 !.reqs[r] = IF Tail(req.updates) = <<>> THEN Responded(req)
                             ELSE [req EXCEPT !.updates = Tail(@), !.pc = "read"]]
       /\ UNCHANGED <<queryVars, ingestVars, auxVars, idx, conv>>

OkLists == {<<FALSE>>, <<FALSE, TRUE>>}

SessionDeleteIds == {1}

\* the :jurisdiction of a delete request: it is used as an ILIKE pattern
SessionDeletePatterns == {Eu, EuUpper, <<"%">>, <<"e", "\\">>}

NextSessions ==
    \/ \E seed \in SessionSeeds : SeedSessions(seed)
    \/ \E r \in 1..MaxReq, ok \in BOOLEAN : PostDocument(r, Eu, ok)
    \/ \E r \in 1..MaxReq, oks \in OkLists : PostUpload(r, EuUpper, oks)
    \/ \E r \in 1..MaxReq, items \in ItemLists : PostBulk(r, items)
    \/ \E r \in 1..MaxReq, files \in FileLists : PostSync(r, Eu, files)
    \/ \E r \in 1..MaxReq : SyncSearch(r)
    \/ \E r \in 1..MaxReq : SyncDelete(r)
    \/ \E r \in 1..MaxReq : \E k \in 1..Len(sess.reqs[r].todo) : ProcessItem(r, k)
    \/ \E r \in 1..MaxReq, id \in SessionDeleteIds : DeleteById(r, id)
    \/ \E r \in 1..MaxReq : RouteGetDocument(r)
    \/ \E r \in 1..MaxReq : RouteDeleteDocument(r)
    \/ \E r \in 1..MaxReq : RouteGetAgentSession(r)
    \/ \E r \in 1..MaxReq, j \in SessionDeletePatterns : DeleteByJurisdiction(r, j)
    \/ \E r \in 1..MaxReq : RouteCountDocuments(r)
    \/ \E r \in 1..MaxReq : RouteDeleteAll(r)
    \/ \E r \in 1..MaxReq : CreateOrUpdateLookup(r)
    \/ \E r \in 1..MaxReq : CreateOrUpdateApply(r)

\* ---------------------------------------------------------------------
\* POST /api/query: the conversation and the messages it stores around the
\* call of the orchestrator.  A handler runs up to its next await; the
\* handlers of concurrent queries interleave at the awaits.
\* ---------------------------------------------------------------------

MaxQueries == 2

\* the messages of the queries, the second one longer than 50 characters
QueryTexts ==
    << <<"f", "i", "r", "s", "t", " ", "q", "u", "e", "s", "t", "i", "o", "n">>,   \* "first question"
       <<"w", "h", "i", "c", "h", " ", "r", "u", "l", "e", "s", " ", "a", "p",
       "p", "l", "y", " ", "t", "o", " ", "h", "i", "g", "h", "-", "r", "i",
       "s", "k", " ", "A", "I", " ", "s", "y", "s", "t", "e", "m", "s", " ",
       "i", "n", " ", "t", "h", "e", " ", "E", "U", " ", "t", "o", "d", "a",
       "y", "?">>,
           \* "which rules apply to high-risk AI systems in the EU today?"
       <<"t", "h", "i", "r", "d", " ", "q", "u", "e", "s", "t", "i", "o", "n">> >>   \* "third question"

\* String.prototype.substring(0, end)
substring(str, end) == SubSeq(str, 1, IF end < Len(str) THEN end ELSE Len(str))

\* the title of the conversation a query creates
ConversationTitle(message) == substring(message, 50) \o <<".", ".", ".">>

\* conversationId of the request body: absent, or 1
ConversationRefs == { [has |-> FALSE, id |-> 0], [has |-> TRUE, id |-> 1] }

AgentAnswer(j) ==
    [agentId |-> j, agentName |-> AgentName(j), content |-> "answer",
     sources |-> StoredSources(j)]

NoOutcome == [threw |-> FALSE, responses |-> <<>>, masterSummary |-> Undefined]

\* what processQueryWithRequest does: it throws, or returns a result (no
\* response, the clarification, two responses with a summary, two responses
\* with an empty summary)
OrchestratorOutcomes ==
    { [threw |-> TRUE, responses |-> <<>>, masterSummary |-> Undefined],
      NoOutcome,
      [threw |-> FALSE,
       responses |-> ClarificationResult("text", NoDecision).responses,
       masterSummary |-> Undefined],
      [threw |-> FALSE, responses |-> <<AgentAnswer("uk"), AgentAnswer("eu")>>,
       masterSummary |-> Some("text")],
      [threw |-> FALSE, responses |-> <<AgentAnswer("uk"), AgentAnswer("eu")>>,
       masterSummary |-> Some("")] }

QueryIdle ==
    [pc |-> "idle", message |-> <<>>, has |-> FALSE, conversationId |-> 0,
     created |-> 0, returned |-> FALSE, outcome |-> NoOutcome, todo |-> <<>>,
     code |-> 0]

ConversationOff ==
    [conversations |-> <<>>, messages |-> <<>>,
     reqs |-> [r \in 1..MaxQueries |-> QueryIdle]]

ConversationInit == conv = ConversationOff

\* storage.createMessage: a new row at the end of the table; by is the
\* request that stored it
createMessage(messages, r, conversationId, role, content, agentId, metadata) ==
    Append(messages,
           [id |-> Len(messages) + 1, conversationId |-> conversationId,
            role |-> role, content |-> content, agentId |-> agentId,
            metadata |-> metadata, by |-> r])

\* if (!conversationId)
LacksConversation(req) == ~req.has \/ req.conversationId = 0

\* if (response.masterSummary), with every defined summary taken as one
HasSummaryDefined(outcome) == outcome.masterSummary # Undefined

\* if (response.masterSummary): an absent or empty summary is skipped
HasSummary(outcome) ==
    outcome.masterSummary # Undefined /\ outcome.masterSummary # Some("")

\* the handler has nothing left to store: res.json
Answered(req) ==
    IF req.todo = <<>> /\ ~HasSummary(req.outcome)
    THEN [req EXCEPT !.pc = "done", !.code = 200]
    ELSE req

\* the queries come from the two clients in turn
\* POST /api/query, up to its first await
PostQuery(r, ref) ==
    /\ conv.reqs[r].pc = "idle"
    /\ \A q \in 1..(r - 1) :
          /\ conv.reqs[q].pc # "idle"
          /\ Client(q) = Client(r) => conv.reqs[q].pc = "done"
    /\ conv' = [conv EXCEPT !.reqs[r] =
          [QueryIdle EXCEPT
              !.message = QueryTexts[r], !.has = ref.has,
              !.conversationId = ref.id,
              !.pc = IF ~ref.has \/ ref.id = 0 THEN "conversation" ELSE "user"]]
    /\ UNCHANGED <<queryVars, ingestVars, auxVars, idx, sess>>

\* storage.createConversation returns
CreateConversation(r) ==
    LET req == conv.reqs[r]
        id == Len(conv.conversations) + 1
    IN /\ req.pc = "conversation"
       /\ LacksConversation(req)
       /\ conv' = [conv EXCEPT
             !.conversations = Append(@, [id |-> id, userId |-> 1,
                                          title |-> ConversationTitle(req.message)]),
             !.reqs[r] = [req EXCEPT !.conversationId = id, !.created = id,
                                     !.pc = "user"]]
       /\ UNCHANGED <<queryVars, ingestVars, auxVars, idx, sess>>

\* the user message is stored and the orchestrator is called
StoreUserMessage(r) ==
    LET req == conv.reqs[r]
    IN /\ req.pc = "user"
       /\ conv' = [conv EXCEPT
             !.messages = createMessage(@, r, req.conversationId, "user",
                                        req.message, "", "none"),
             !.reqs[r] = [req EXCEPT !.pc = "orchestrator"]]
       /\ UNCHANGED <<queryVars, ingestVars, auxVars, idx, sess>>

\* processQueryWithRequest undoing the request when it throws
OrchestratorReturnsRollback(r, outcome) ==
    LET req == conv.reqs[r]
    IN /\ req.pc = "orchestrator"
       /\ conv' = [conv EXCEPT
             !.messages = IF outcome.threw
                          THEN SelectSeq(@, LAMBDA m : m.by # r) ELSE @,
             !.reqs[r] =
                 IF outcome.threw
                 THEN [req EXCEPT !.returned = TRUE, !.outcome = outcome,
                                  !.pc = "done", !.code = 500]
                 ELSE Answered([req EXCEPT !.returned = TRUE,
                                           !.outcome = outcome,
                                           !.todo = outcome.responses,
                                           !.pc = "assistant"])]
       /\ UNCHANGED <<queryVars, ingestVars, auxVars, idx, sess>>

\* processQueryWithRequest returns or throws: the catch answers 500
OrchestratorReturns(r, outcome) ==
    LET req == conv.reqs[r]
    IN /\ req.pc = "orchestrator"
       /\ conv' = [conv EXCEPT !.reqs[r] =
             IF outcome.threw
             THEN [req EXCEPT !.returned = TRUE, !.outcome = outcome,
                              !.pc = "done", !.code = 500]
             ELSE Answered([req EXCEPT !.returned = TRUE, !.outcome = outcome,
                                       !.todo = outcome.responses,
                                       !.pc = "assistant"])]
       /\ UNCHANGED <<queryVars, ingestVars, auxVars, idx, sess>>

\* the message of the next response is stored
StoreAssistantMessage(r) ==
    LET req == conv.reqs[r]
        agentResponse == Head(req.todo)
    IN /\ req.pc = "assistant"
       /\ req.todo # <<>>
       /\ conv' = [conv EXCEPT
             !.messages = createMessage(@, r, req.conversationId, "assistant",
                                        agentResponse.content,
                                        agentResponse.agentId, "sources"),
             !.reqs[r] = Answered([req EXCEPT !.todo = Tail(@)])]
       /\ UNCHANGED <<queryVars, ingestVars, auxVars, idx, sess>>

\* the master summary message is stored and the query is answered
StoreMasterSummary(r) ==
    LET req == conv.reqs[r]
    IN /\ req.pc = "assistant"
       /\ req.todo = <<>>
       /\ HasSummary(req.outcome)
       /\ conv' = [conv EXCEPT
             !.messages = createMessage(@, r, req.conversationId, "assistant",
                                        req.outcome.masterSummary[1],
                                        "master", "summary"),
             !.reqs[r] = [req EXCEPT !.pc = "done", !.code = 200]]
       /\ UNCHANGED <<queryVars, ingestVars, auxVars, idx, sess>>

\* a storage call of the handler throws: the catch answers 500
StorageThrows(r) ==
    LET req == conv.reqs[r]
    IN /\ req.pc \in {"conversation", "user", "assistant"}
       /\ conv' = [conv EXCEPT !.reqs[r] = [req EXCEPT !.pc = "done", !.code = 500]]
       /\ UNCHANGED <<queryVars, ingestVars, auxVars, idx, sess>>

NextRoute ==
    \/ \E r \in 1..MaxQueries, ref \in ConversationRefs : PostQuery(r, ref)
    \/ \E r \in 1..MaxQueries : CreateConversation(r)
    \/ \E r \in 1..MaxQueries : StoreUserMessage(r)
    \/ \E r \in 1..MaxQueries, outcome \in OrchestratorOutcomes :
          OrchestratorReturns(r, outcome)
    \/ \E r \in 1..MaxQueries : StoreAssistantMessage(r)
    \/ \E r \in 1..MaxQueries : StoreMasterSummary(r)
    \/ \E r \in 1..MaxQueries : StorageThrows(r)


Init ==
    /\ QueryInit /\ IngestInit /\ BatchInit /\ SearchInit /\ ScoringInit
    /\ AgentInit /\ IndexInit /\ SessionsInit /\ ConversationInit

\* the orchestrator serving one query
Next ==
    \/ \E req \in Requests : ReceiveQuery(req)
    \/ RouteExplicit
    \/ RouteAll
    \/ \E reply \in ClassifierReplies : RouteAuto(reply)
    \/ Clarify
    \/ \E reply \in TextReplies : ClarifyReturn(reply)
    \/ Dispatch
    \/ \E i \in 1..Len(agents), ok \in BOOLEAN : AgentRetrieve(i, ok)
    \/ \E i \in 1..Len(agents), reply \in AgentReplies : AgentGenerate(i, reply)
    \/ Settle
    \/ \E reply \in TextReplies : SummaryReturn(reply)
    \/ \E reply \in FollowUpReplies : Respond(reply)

Spec == Init /\ [][Next]_vars

\* a step of a received query: a pending call settles or the orchestrator
\* goes on
QueryStep ==
    \/ pc = "route" /\ \/ RouteExplicit
                       \/ RouteAll
                       \/ \E reply \in ClassifierReplies : RouteAuto(reply)
    \/ pc = "routed" /\ (Clarify \/ Dispatch)
    \/ pc = "clarify" /\ \E reply \in TextReplies : ClarifyReturn(reply)
    \/ pc = "dispatch" /\ \/ \E i \in 1..Len(agents), ok \in BOOLEAN : AgentRetrieve(i, ok)
                          \/ \E i \in 1..Len(agents), reply \in AgentReplies :
                                AgentGenerate(i, reply)
                          \/ Settle
    \/ pc = "summary" /\ \E reply \in TextReplies : SummaryReturn(reply)
    \/ pc = "suggest" /\ \E reply \in FollowUpReplies : Respond(reply)

\* every storage and generation call eventually succeeds or fails, and the
\* orchestrator runs whenever it can
SpecLive == Spec /\ WF_vars(QueryStep)

\* the ingestion pipeline processing one document
NextIngest ==
    \/ \E doc \in IngestDocs : StartIngest(doc)
    \/ \E ok \in BOOLEAN : EmbedReturn(ok)
    \/ CreateDocument
    \/ IndexDocument

SpecIngest == Init /\ [][NextIngest]_vars

\* the ingestion pipeline processing one batch of documents
SpecBatch == Init /\ [][NextBatch]_vars

\* a vector store being filled and searched
SpecSearch == Init /\ [][NextSearch]_vars

\* relevance scoring of documents by jurisdiction agents
SpecScoring == Init /\ [][NextScoring]_vars

\* one processQuery call of one jurisdiction agent
SpecAgent == Init /\ [][NextAgent]_vars

\* start-up, warm-up of the vector store, and ingest and delete requests
SpecIndex == Init /\ [][NextIndex]_vars

SpecSessions == Init /\ [][NextSessions]_vars

SpecRoute == Init /\ [][NextRoute]_vars

----------------------------------------------------------------------------
(* Properties of the orchestrator (checked under Spec) *)

Selected == routing.selectedJurisdictions
Fulfilled == {i \in 1..Len(agents) : agents[i].status = "fulfilled"}
Rejected == {i \in 1..Len(agents) : agents[i].status = "rejected"}
\* queryJurisdictionAgents has returned
DispatchReturned ==
    \/ pc \in {"summary", "suggest"}
    \/ pc = "done" /\ agents # <<>>
    \/ pc = "threw" /\ error = "summary"
\* routeQuery has returned
Routed == pc \notin {"idle", "route"}
NamesJurisdictions(req) == req.hasJ /\ Len(req.jurisdictions) > 0

\* C1: DISPATCH isolates agent failures: once every agent has settled,
\* queryJurisdictionAgents returns one response per fulfilled agent (as many
\* responses with a given agentId as fulfilled agents of that id), none for a
\* rejected agent, and no exception escapes the dispatch.
C1_DispatchIsolatesFailures ==
    /\ error # "dispatch"
    /\ DispatchReturned =>
         /\ Len(responses) = Cardinality(Fulfilled)
         /\ \A j \in InputIds \cup CatalogSet :
               Cardinality({k \in 1..Len(responses) : responses[k].agentId = j})
                 = Cardinality({i \in Fulfilled : agents[i].id = j})

\* three selected, exactly one agent threw after it was started: two responses
C1_Witness ==
    /\ DispatchReturned
    /\ Len(agents) = 3
    /\ Cardinality(Rejected) = 1
    /\ \E i \in Rejected : agents[i].id \in CatalogSet
    /\ Len(responses) = 2

\* C2 (as stated): every returned result carries exactly 5 suggested
\* questions, whatever path the query took.
C2_AlwaysFiveQuestions ==
    pc = "done" =>
        /\ "suggestedQuestions" \in DOMAIN result
        /\ Len(result.suggestedQuestions) = 5

\* C2 (amended): every result returned on the DISPATCH/RESPOND path carries
\* exactly 5 suggested questions whatever the provider would answer to a
\* follow-up request; the result of the CLARIFY path carries no
\* suggestedQuestions field.
C2_FiveQuestionsOnRespond ==
    pc = "done" =>
        IF calls.clarify > 0
        THEN "suggestedQuestions" \notin DOMAIN result
        ELSE /\ "suggestedQuestions" \in DOMAIN result
             /\ Len(result.suggestedQuestions) = 5

C2_Witness ==
    /\ pc = "done"
    /\ calls.clarify = 0
    /\ followUp = "array4"
    /\ Len(result.suggestedQuestions) = 5

\* C3: a provider error in the classifier call, the summary call or the
\* suggested-questions call never makes processQueryWithRequest throw.
C3_ProviderErrorsNeverFail ==
    pc = "threw" => error \notin {"classifier", "summary", "suggest"}

\* C4: when every selected agent fails, processQueryWithRequest does not
\* throw and issues no summary call; the result it returns has responses = [],
\* masterSummary undefined, the routing decision as routingInfo and the five
\* suggested questions.
AllAgentsFailed == agents # <<>> /\ Rejected = 1..Len(agents)

C4_TotalDispatchFailure ==
    AllAgentsFailed =>
        /\ pc \in {"dispatch", "suggest", "done"}
        /\ error = "none"
        /\ calls.summary = 0
        /\ pc = "done" =>
             /\ DOMAIN result = {"responses", "masterSummary", "routingInfo",
                                 "suggestedQuestions"}
             /\ result.responses = <<>>
             /\ result.masterSummary = Undefined
             /\ result.routingInfo = routing
             /\ Len(result.suggestedQuestions) = 5

C4_Witness ==
    /\ AllAgentsFailed
    /\ pc = "done"
    /\ Len(agents) >= 2
    /\ \A i \in 1..Len(agents) : agents[i].id \in CatalogSet
    /\ result.responses = <<>>

\* C6 (as stated): the CLARIFY path is taken only if the selected
\* jurisdictions are exactly the single sentinel.
C6_ClarifyOnlyIfExactlySentinel ==
    calls.clarify > 0 => Selected = <<Sentinel>>

\* C6 (amended): the CLARIFY path is taken if and only if the selected
\* jurisdictions include the sentinel; on that path no jurisdiction agent is
\* invoked and no summary is requested, and the result returned has exactly
\* one response, with agentId "master" and empty sources, and masterSummary
\* undefined.
C6_ClarifyIffSentinelSelected ==
    /\ calls.clarify > 0 =>
         /\ Sentinel \in Range(Selected)
         /\ agents = <<>> /\ calls.agent = 0 /\ calls.summary = 0
         /\ pc \in {"clarify", "done", "threw"}
         /\ pc = "done" =>
              /\ Len(result.responses) = 1
              /\ result.responses[1].agentId = "master"
              /\ result.responses[1].sources = <<>>
              /\ result.masterSummary = Undefined
    /\ agents # <<>> => Sentinel \notin Range(Selected) /\ calls.clarify = 0
    /\ (Routed /\ pc # "routed") => (calls.clarify > 0 \/ agents # <<>>)

\* the request names the sentinel next to a real jurisdiction
C6_Witness ==
    /\ pc = "done"
    /\ calls.clarify > 0
    /\ Len(Selected) = 2
    /\ "eu" \in Range(Selected)
    /\ result.responses[1].agentId = "master"

\* C7: when the classifier is invoked the decision has autoRouted = true and
\* selects [CLARIFICATION_NEEDED] (the reply's array names the sentinel), or
\* the reply's ids that are in the catalog, in order (when there is one), or
\* else the default pair with the fallback rationale; no id outside the
\* catalog is selected.
InCatalog(j) == j \in CatalogSet

C7_AutoRouteSelection ==
    (Routed /\ calls.classifier > 0) =>
        /\ routing.autoRouted
        /\ LET r == classifierReply
               valid == SelectSeq(r.sel, InCatalog)
           IN IF r.kind = "array" /\ Sentinel \in Range(r.sel)
              THEN Selected = <<Sentinel>>
              ELSE IF r.kind = "array" /\ Len(valid) > 0
              THEN Selected = valid
              ELSE Selected = DefaultPair /\ routing.rationale = RationaleFallback
        /\ Selected = <<Sentinel>> \/ Range(Selected) \subseteq CatalogSet
        /\ Selected # <<>>

\* the classifier named an unknown id before a known one
C7_Witness ==
    /\ calls.classifier > 0
    /\ classifierReply.kind = "array"
    /\ classifierReply.sel = <<"mars", "uk">>
    /\ Selected = <<"uk">>
    /\ pc = "done"

\* C8: off the CLARIFY path the summary call is issued if and only if the
\* dispatch produced at least 2 successful responses (whatever the number of
\* selected jurisdictions); otherwise masterSummary is undefined.
C8_SummaryIffTwoSuccesses ==
    /\ ~DispatchReturned => calls.summary = 0
    /\ DispatchReturned =>
         /\ calls.summary = (IF Cardinality(Fulfilled) >= 2 THEN 1 ELSE 0)
         /\ (pc = "done" /\ Cardinality(Fulfilled) < 2) =>
                result.masterSummary = Undefined
         /\ (pc = "done" /\ Cardinality(Fulfilled) >= 2) =>
                result.masterSummary # Undefined

\* three selected, one success: no summary
C8_Witness ==
    /\ pc = "done"
    /\ Len(agents) = 3
    /\ Cardinality(Fulfilled) = 1
    /\ calls.summary = 0
    /\ result.masterSummary = Undefined

\* C9: when the request names at least one jurisdiction, routeQuery returns
\* the request's list verbatim with autoRouted = false, for every query text
\* and autoRoute value, and the classifier is not called.
C9_ExplicitJurisdictionsVerbatim ==
    (Routed /\ NamesJurisdictions(request)) =>
        /\ Selected = request.jurisdictions
        /\ ~routing.autoRouted
        /\ calls.classifier = 0

\* a list with an unregistered id and a repeated id, autoRoute on
C9_Witness ==
    /\ pc = "routed"
    /\ request.autoRoute
    /\ request.jurisdictions = <<"mars", "eu", "eu">>
    /\ Selected = <<"mars", "eu", "eu">>

\* C10: when the request names no jurisdiction (absent or empty list) and
\* autoRoute is false, routeQuery returns every key of the agent map with
\* autoRouted = false and the classifier is not called.
C10_AutoRouteOffSelectsCatalog ==
    (Routed /\ ~NamesJurisdictions(request) /\ ~request.autoRoute) =>
        /\ Range(Selected) =
             {"us-federal", "california", "colorado", "eu", "uk", "germany"}
        /\ Len(Selected) = 6
        /\ ~routing.autoRouted
        /\ calls.classifier = 0
        /\ agents # <<>> => \A i \in 1..Len(agents) : agents[i].id \in CatalogSet

\* an empty list was given; all six agents were started
C10_Witness ==
    /\ request.hasJ /\ request.jurisdictions = <<>> /\ ~request.autoRoute
    /\ pc = "dispatch"
    /\ calls.agent = 6

----------------------------------------------------------------------------
(* Properties of ingestion (checked under SpecIngest) *)

\* C5: ingestion is all-or-nothing per document: when processDocument fails
\* on an embedding request, no row of that document has been persisted or
\* registered in the vector store.
C5_IngestAllOrNothing ==
    ing.pc = "threw" =>
        /\ Len(documents) = ing.base
        /\ \A id \in vectorStore : \E k \in 1..ing.base : documents[k].id = id


\* rows persisted by the processDocument call in progress
NewRows == SubSeq(documents, ing.base + 1, Len(documents))
RowIds(rows) == {rows[k].id : k \in 1..Len(rows)}
OldIds == RowIds(SubSeq(documents, 1, ing.base))

\* C11: for content of at most 28,000 characters a successful processDocument
\* makes exactly one embedding request, persists exactly one row, with an
\* embedding and the unmodified title and content, and registers exactly that
\* row in the vector store.
C11_SmallDocumentOneRow ==
    (ing.pc = "done" /\ StrLen(ing.doc.content) <= 28000) =>
        /\ ing.embedCalls = 1
        /\ Len(NewRows) = 1
        /\ NewRows[1].embedding = "vector"
        /\ NewRows[1].title = [base |-> ing.doc.title, part |-> 0, of |-> 0]
        /\ NewRows[1].content = ing.doc.content
        /\ NewRows[1].jurisdiction = ing.doc.jurisdiction
        /\ vectorStore = OldIds \cup {NewRows[1].id}
        /\ NewRows[1].id \notin OldIds

\* a document of exactly 28,000 characters
C11_Witness ==
    /\ ing.pc = "done"
    /\ StrLen(ing.doc.content) = 28000
    /\ Len(NewRows) = 1

\* whitespace normalization at sentence boundaries: whitespace at either
\* end of the text or next to a terminator is removed
RECURSIVE mergeRuns(_)
mergeRuns(runs) ==
    IF Len(runs) < 2 THEN runs
    ELSE IF runs[1].k = runs[2].k
         THEN mergeRuns(<<Run(runs[1].k, runs[1].n + runs[2].n)>> \o SubSeq(runs, 3, Len(runs)))
         ELSE <<runs[1]>> \o mergeRuns(Tail(runs))

BoundarySpace(runs, i) ==
    /\ runs[i].k = "sp"
    /\ \/ i = 1
       \/ i = Len(runs)
       \/ runs[i - 1].k \in Terminators
       \/ runs[i + 1].k \in Terminators

RECURSIVE keepFrom(_, _)
keepFrom(runs, i) ==
    IF i > Len(runs) THEN <<>>
    ELSE IF BoundarySpace(runs, i) THEN keepFrom(runs, i + 1)
         ELSE <<runs[i]>> \o keepFrom(runs, i + 1)

Canon(runs) == mergeRuns(keepFrom(mergeRuns(runs), 1))

RECURSIVE joinContents(_)
joinContents(pieces) ==
    IF pieces = <<>> THEN <<>>
    ELSE Head(pieces).content \o joinContents(Tail(pieces))

Chunked == ing.pc # "idle" /\ StrLen(ing.doc.content) > 28000

\* C12: for content longer than 28,000 characters the chunk contents,
\* concatenated in chunk order, are the original content up to whitespace at
\* sentence boundaries: no other character is dropped, added or changed.
C12_ChunksReconstructContent ==
    Chunked => Canon(joinContents(ing.pieces)) = Canon(ing.doc.content)

HasTerminator(runs) == \E i \in 1..Len(runs) : runs[i].k \in Terminators

\* C19: every chunk produced by chunkText(text, maxChars) has at most maxChars
\* characters, and a text without any sentence terminator is cut into
\* fixed-size slices.
C19_ChunksWithinBudget ==
    Chunked =>
        /\ \A i \in 1..Len(ing.pieces) : StrLen(ing.pieces[i].content) <= ChunkChars
        /\ ~HasTerminator(ing.doc.content) =>
               \A i \in 1..Len(ing.pieces) :
                   ing.pieces[i].content
                     = takeChars(dropChars(ing.doc.content, (i - 1) * ChunkChars),
                                 ChunkChars)

\* C20: a successful processDocument of a document split into n chunks
\* persists exactly n rows, in chunk order, titled "<title> (Part i/n)" for
\* i = 1..n, each with the chunk's content and the parent's jurisdiction, and
\* returns the row of Part 1.
C20_ChunkRowsInOrder ==
    (ing.pc = "done" /\ StrLen(ing.doc.content) > 28000) =>
        LET n == Len(chunkText(ing.doc.content, ChunkChars))
        IN /\ Len(NewRows) = n
           /\ ing.embedCalls = n
           /\ \A i \in 1..n :
                 /\ NewRows[i].title = [base |-> ing.doc.title, part |-> i, of |-> n]
                 /\ NewRows[i].content = chunkText(ing.doc.content, ChunkChars)[i]
                 /\ NewRows[i].jurisdiction = ing.doc.jurisdiction
                 /\ NewRows[i].id \in vectorStore
           /\ \A i, j \in 1..n : i < j => NewRows[i].id < NewRows[j].id
           /\ ing.created = NewRows
           /\ ing.created[1].title.part = 1

\* five chunks of two sentences each
C20_Witness ==
    /\ ing.pc = "done"
    /\ Len(NewRows) = 5
    /\ NewRows[5].title = [base |-> "AI Act", part |-> 5, of |-> 5]
    /\ StrLen(NewRows[5].content) = 5803

----------------------------------------------------------------------------
(* Properties of batch ingestion (checked under SpecBatch) *)

DoneProcs == {k \in 1..Len(batch.procs) : batch.procs[k].pc = "done"}
ThrewProcs == {k \in 1..Len(batch.procs) : batch.procs[k].pc = "threw"}
AllRows == {documents[n] : n \in 1..Len(documents)}

\* C13: processMultipleDocuments starts processDocument for every document,
\* never rejects, and returns exactly the Documents of the inputs whose
\* processDocument succeeded, in input order; a failing document stops no
\* other document: a document that is not settled can always take its next
\* step, and every succeeded document has all its rows persisted and indexed.
C13_BatchIsolatesFailures ==
    /\ batch.pc # "threw"
    /\ batch.pc = "running" =>
         \A k \in 1..Len(batch.procs) :
            /\ batch.procs[k].pc = "embed" => ENABLED BatchEmbedReturn(k, TRUE)
            /\ batch.procs[k].pc = "create" => ENABLED BatchCreateDocument(k)
            /\ batch.procs[k].pc = "index" => ENABLED BatchIndexDocument(k)
    /\ batch.pc = "done" =>
         /\ DoneProcs \cup ThrewProcs = 1..Len(batch.procs)
         /\ Len(batch.result) = Cardinality(DoneProcs)
         /\ \A k \in DoneProcs :
               LET p == batch.procs[k]
                   n == Cardinality({j \in DoneProcs : j <= k})
               IN /\ batch.result[n] = p.created[1]
                  /\ batch.result[n].title.base = p.doc.title
                  /\ Len(p.created) = Len(p.pieces)
                  /\ \A i \in 1..Len(p.created) :
                        /\ p.created[i] \in AllRows
                        /\ p.created[i].id \in vectorStore

\* the first document failed on its second chunk, the second one succeeded
C13_Witness ==
    /\ batch.pc = "done"
    /\ Len(batch.procs) = 2
    /\ batch.procs[1].pc = "threw" /\ Len(batch.procs[1].created) = 1
    /\ batch.procs[2].pc = "done"
    /\ Len(batch.result) = 1
    /\ batch.result[1] = batch.procs[2].created[1]

----------------------------------------------------------------------------
(* Properties of the vector store (checked under SpecSearch) *)

StoredDocs == {search.documents[n].value : n \in 1..Len(search.documents)}
WithEmbedding == {d \in StoredDocs : d.embedding # <<>>}
SimilarityOf(d) == cosineSimilarity(search.call.query, d.embedding[1]).value
ResultDocs == {search.result[n].document : n \in 1..Len(search.result)}
Smaller(x, y) == IF x < y THEN x ELSE y

\* the result is the top search.call.limit of the candidate set cand
TopK(cand) ==
    /\ Len(search.result) = Smaller(search.call.limit, Cardinality(cand))
    /\ Len(search.result) <= search.call.limit
    /\ ResultDocs \subseteq cand
    /\ Cardinality(ResultDocs) = Len(search.result)
    /\ \A n \in 1..Len(search.result) :
          search.result[n].similarity = SimilarityOf(search.result[n].document)
    /\ \A n \in 1..(Len(search.result) - 1) :
          ~SimLess(search.result[n].similarity, search.result[n + 1].similarity)
    /\ \A d \in cand \ ResultDocs : \A n \in 1..Len(search.result) :
          ~SimLess(search.result[n].similarity, SimilarityOf(d))

\* C14 as stated: whenever an allow-list is given, the results are the k
\* most similar documents with an embedding whose jurisdiction is in the
\* list, and all documents with an embedding count when no list is given.
C14_AllowListAlwaysFilters ==
    search.pc = "returned" =>
        TopK(IF search.call.jurisdictions.given
             THEN {d \in WithEmbedding :
                      d.jurisdiction \in Range(search.call.jurisdictions.list)}
             ELSE WithEmbedding)

\* C14 (amended): searchSimilar returns the k most similar documents with
\* an embedding whose jurisdiction is in the allow-list, an absent or empty
\* allow-list admitting every document: at most k results, none outside a
\* non-empty allow-list, in non-increasing order of similarity.
C14_TopKWithinAllowList ==
    search.pc = "returned" =>
        TopK(IF /\ search.call.jurisdictions.given
                /\ search.call.jurisdictions.list # <<>>
             THEN {d \in WithEmbedding :
                      d.jurisdiction \in Range(search.call.jurisdictions.list)}
             ELSE WithEmbedding)

\* two eu documents and one uk document are stored with embeddings, the
\* allow-list is [eu] and k = 1: the uk document is filtered out, the more
\* similar eu document, added last, is returned and the other is cut off
C14_Witness ==
    /\ search.pc = "returned"
    /\ search.call.jurisdictions = [given |-> TRUE, list |-> <<"eu">>]
    /\ search.call.limit = 1
    /\ Len(search.embeddings) = 3
    /\ \E d \in WithEmbedding : d.jurisdiction = "uk"
    /\ Len(search.result) = 1
    /\ search.result[1].document.id = search.embeddings[3].key
    /\ \E d \in WithEmbedding :
          /\ d.jurisdiction = "eu"
          /\ SimLess(SimilarityOf(d), search.result[1].similarity)

----------------------------------------------------------------------------
(* Properties of relevance scoring (checked under SpecScoring) *)

\* the matching signals of a call: the title-substring match, the query
\* words longer than 3 found in the title and in the content (duplicates
\* counted) and the specialization keywords found in the content
Signals(call) ==
    LET q == toLowerCase(call.query)
        t == toLowerCase(call.doc.title)
        c == toLowerCase(call.doc.content)
        w == split(q)
    IN [title |-> IF includes(t, q) THEN 1 ELSE 0,
        titleWords |-> Cardinality({n \in 1..Len(w) : Len(w[n]) > 3 /\ includes(t, w[n])}),
        contentWords |-> Cardinality({n \in 1..Len(w) : Len(w[n]) > 3 /\ includes(c, w[n])}),
        keywords |-> Cardinality({n \in 1..Len(call.specialization) :
                        includes(c, toLowerCase(call.specialization[n]))})]

SignalsLeq(a, b) ==
    /\ a.title <= b.title
    /\ a.titleWords <= b.titleWords
    /\ a.contentWords <= b.contentWords
    /\ a.keywords <= b.keywords

\* C15: the relevance score is a double in [0, 1], it is the capped sum of
\* 0.3, 0.2, 0.1 and 0.15 per signal up to the rounding of the additions,
\* and of two calls the one that has the matching signals of the other and
\* more has at least its score (two calls with the same signals may differ
\* in the last place, by the order of the additions).
C15_RelevanceBoundedMonotone ==
    /\ scoring.cur.made =>
          /\ DoubleLeq(Double(0, 0), scoring.cur.score)
          /\ DoubleLeq(scoring.cur.score, Double(100, 0))
          /\ LET g == Signals(scoring.cur)
                 sum == 30 * g.title + 20 * g.titleWords
                        + 10 * g.contentWords + 15 * g.keywords
             IN scoring.cur.score.h = IF sum > 100 THEN 100 ELSE sum
    /\ (scoring.prev.made /\ SignalsLeq(Signals(scoring.prev), Signals(scoring.cur)))
          => IF Signals(scoring.prev) = Signals(scoring.cur)
             THEN scoring.prev.score.h = scoring.cur.score.h
             ELSE DoubleLeq(scoring.prev.score, scoring.cur.score)

\* a call whose signals sum to more than 1 follows a call with fewer
\* signals and a smaller score
C15_Witness ==
    /\ scoring.prev.made
    /\ SignalsLeq(Signals(scoring.prev), Signals(scoring.cur))
    /\ Signals(scoring.prev) # Signals(scoring.cur)
    /\ DoubleLess(Double(0, 0), scoring.prev.score)
    /\ DoubleLess(scoring.prev.score, scoring.cur.score)
    /\ Signals(scoring.cur).titleWords = 4
    /\ scoring.cur.score = Double(100, 0)

----------------------------------------------------------------------------
(* Properties of one jurisdiction agent (checked under SpecAgent) *)

\* no second attempt: at most one storage call and one generation call, and
\* no call once processQuery has rejected
NoRetry ==
    /\ ag.storageCalls <= 1
    /\ ag.generationCalls <= 1
    /\ ag.pc = "rejected" =>
          /\ ag.storageCalls = 1
          /\ ag.generationCalls = (IF ag.raised.origin = "provider" THEN 1 ELSE 0)
          /\ ~ENABLED NextAgent

\* C16 as stated: no retry, and processQuery rejects with the very error
\* the storage or the generation provider raised.
C16_ErrorsUnmodified ==
    /\ NoRetry
    /\ ag.pc = "rejected" => ag.error = ag.raised

\* C16 (amended): no retry; a retrieval failure rejects processQuery with
\* the very error storage raised, a generation failure rejects it with a
\* new error whose message is "Failed to generate response: " followed by
\* the message of the error the provider raised.
C16_NoRetryGenerationWrapped ==
    /\ NoRetry
    /\ (ag.pc = "rejected" /\ ag.raised.origin = "storage") =>
          ag.error = ag.raised
    /\ (ag.pc = "rejected" /\ ag.raised.origin = "provider") =>
          /\ ag.error # ag.raised
          /\ ag.error.origin = "BaseAgent.generateResponse"
          /\ ag.error.message = <<"Failed to generate response: ">> \o ag.raised.message

\* the generation call failed after three documents were retrieved
C16_Witness ==
    /\ ag.pc = "rejected"
    /\ ag.raised \in ProviderErrors
    /\ Len(ag.relevantDocs) = 3
    /\ ag.storageCalls = 1 /\ ag.generationCalls = 1
    /\ ag.error.message = <<"Failed to generate response: ", "429 rate limit">>

----------------------------------------------------------------------------
(* Properties of the dispatch fan-out (checked under Spec and SpecLive) *)

AllSettled == \A i \in 1..Len(agents) : Settled(agents[i])
Terminated == pc \in {"done", "threw"}

\* C17: DISPATCH is an all-settle fan-out.  While the orchestrator waits,
\* every selected agent has been started (one promise per selected id, in
\* order, one processQuery call per catalog agent), every agent that has
\* not settled can take its next step whatever the others did, and neither
\* the summary call nor the follow-up step nor the result exists; they come
\* only once every agent has settled.
C17_AllSettleFanOut ==
    /\ pc = "dispatch" =>
          /\ Len(agents) = Len(Selected)
          /\ \A i \in 1..Len(agents) :
                /\ agents[i].id = Selected[i]
                /\ agents[i].status = "retrieving" =>
                      ENABLED AgentRetrieve(i, TRUE) /\ ENABLED AgentRetrieve(i, FALSE)
                /\ agents[i].status = "generating" =>
                      \A reply \in AgentReplies : ENABLED AgentGenerate(i, reply)
          /\ calls.agent = Cardinality({i \in 1..Len(agents) : agents[i].id \in CatalogSet})
          /\ calls.summary = 0
          /\ responses = <<>> /\ masterSummary = Undefined
          /\ followUp = "none" /\ result = NoResult
    /\ (DispatchReturned \/ calls.summary > 0 \/ responses # <<>>) => AllSettled

\* the first agent has failed and the second has answered while the third
\* is still generating
C17_Witness ==
    /\ pc = "dispatch"
    /\ Len(agents) = 3
    /\ agents[1].status = "rejected"
    /\ agents[2].status = "fulfilled"
    /\ agents[3].status = "generating"

\* C18: when every downstream call settles, processQueryWithRequest
\* eventually returns or throws; and the dispatch is left only when every
\* selected agent has settled, so an agent that never settles keeps the
\* query in the dispatch for ever.
C18_TerminatesIffAgentsSettle ==
    /\ (pc = "route") ~> Terminated
    /\ [][(pc = "dispatch" /\ ~AllSettled) => (pc' = "dispatch" /\ result' = NoResult)]_vars

\* every agent but the last has finished and the query is still waiting
C18_Witness ==
    /\ pc = "dispatch"
    /\ Len(agents) = 3
    /\ agents[1].status = "fulfilled"
    /\ agents[2].status = "fulfilled"
    /\ agents[3].status = "retrieving"
    /\ ~ENABLED Settle

----------------------------------------------------------------------------
(* Properties of an agent's retrieval (checked under SpecAgent) *)

\* the stored documents of the agent's jurisdiction (letter case apart)
OwnDocs ==
    {d \in Range(ag.stored) :
        toLowerCase(d.jurisdiction) = toLowerCase(AgentJurisdiction)}
AgentScore(d) == calculateRelevance(d, ag.query, AgentSpecialization)

\* C21: once storage has answered, the retrieved documents are at most
\* RetrievalLimit documents of the agent's own jurisdiction, those of
\* highest relevance in non-increasing order of score; the sources of the
\* AgentResponse list these documents in the same order, each with its
\* title, its score and floor(content.length / 4) tokens.
C21_RetrievalTopLimit ==
    /\ ag.pc \in {"generating", "fulfilled"} =>
          /\ Len(ag.relevantDocs) = Smaller(RetrievalLimit, Cardinality(OwnDocs))
          /\ Len(ag.relevantDocs) <= RetrievalLimit
          /\ Range(ag.relevantDocs) \subseteq OwnDocs
          /\ Cardinality(Range(ag.relevantDocs)) = Len(ag.relevantDocs)
          /\ \A n \in 1..(Len(ag.relevantDocs) - 1) :
                DoubleLeq(AgentScore(ag.relevantDocs[n + 1]),
                          AgentScore(ag.relevantDocs[n]))
          /\ \A d \in OwnDocs \ Range(ag.relevantDocs) :
                \A n \in 1..Len(ag.relevantDocs) :
                   DoubleLeq(AgentScore(d), AgentScore(ag.relevantDocs[n]))
    /\ ag.pc = "fulfilled" =>
          /\ Len(ag.response.sources) = Len(ag.relevantDocs)
          /\ ag.response.metadata.documentsUsed = Len(ag.relevantDocs)
          /\ \A n \in 1..Len(ag.relevantDocs) :
                /\ ag.response.sources[n].title = ag.relevantDocs[n].title
                /\ ag.response.sources[n].relevance = AgentScore(ag.relevantDocs[n])
                /\ 4 * ag.response.sources[n].tokens <= Len(ag.relevantDocs[n].content)
                /\ Len(ag.relevantDocs[n].content) < 4 * (ag.response.sources[n].tokens + 1)

\* seven documents of the jurisdiction and one of another are stored: five
\* are retrieved, the best one, stored last, first
C21_Witness ==
    /\ ag.pc = "fulfilled"
    /\ Len(ag.stored) = 8
    /\ Cardinality(OwnDocs) = 7
    /\ Len(ag.response.sources) = 5
    /\ ag.relevantDocs[1] = ag.stored[8]
    /\ ag.response.sources[1].relevance.h = 75
    /\ ag.response.sources[1].tokens = 3
    /\ ag.response.sources[5].relevance = Double(0, 0)

----------------------------------------------------------------------------
(* Properties of start-up and of the vector store's contents (checked under
   SpecIndex) *)

RECURSIVE Concat(_)
Concat(seqs) == IF seqs = <<>> THEN <<>> ELSE Head(seqs) \o Concat(Tail(seqs))

\* C22: warm-up is fire-and-forget.  initializeVectorStore has returned (the
\* service is ready) as soon as the warm-up is scheduled, before any stored
\* document is added; the documents are added batch after batch, each batch
\* the next at most BatchSize documents of the list that was read; an error
\* of the warm-up is logged and reaches neither the caller nor start-up.
C22_WarmUpFireAndForget ==
    /\ idx.warm # "none" => idx.boot = "ready"
    /\ idx.boot # "ready" => idx.index = {}
    /\ idx.warm \in {"none", "scheduled", "fetching", "failed"} => idx.batches = <<>>
    /\ \A n \in 1..Len(idx.batches) :
          /\ Len(idx.batches[n]) >= 1
          /\ Len(idx.batches[n]) <= BatchSize
          /\ n < Len(idx.batches) => Len(idx.batches[n]) = BatchSize
    /\ idx.i = BatchSize * Len(idx.batches)
    /\ Concat(idx.batches)
          = SubSeq(idx.allDocuments, 1, Smaller(idx.i, Len(idx.allDocuments)))
    /\ Range(Concat(idx.batches)) \subseteq idx.index
    /\ idx.logged <=> idx.warm = "failed"

\* 101 documents are stored; the first batch of 50 is in the index, the
\* task is pausing, and a query has been served from the partial index
C22_Witness ==
    /\ idx.boot = "ready"
    /\ idx.warm = "pause"
    /\ Len(idx.allDocuments) = 101
    /\ Len(idx.batches) = 1
    /\ Cardinality(idx.index) = 50
    /\ idx.searched.done /\ idx.searched.partial

\* C27: every document held in the vector store exists in storage, and no
\* request is served from a vector store holding a deleted document.
C27_IndexWithinStorage ==
    /\ idx.index \subseteq idx.storage
    /\ ~idx.searched.deleted

\* the requests that are between their read of a session and their write
Writing == {r \in 1..MaxReq : sess.reqs[r].pc \in {"lookup", "apply"}}

\* C23: the session counters are rewritten by a read-modify-write that is
\* not atomic: what a request writes is computed from the session it read
\* at an earlier step (getAgentSession), and createOrUpdateAgentSession
\* stores that whole record over every row of the agent whatever the rows
\* hold by then, so the update of a concurrent request can be lost.
C23_NonAtomicReadModifyWrite ==
    [][\A r \in 1..MaxReq :
          LET req == sess.reqs[r]
          IN /\ (r \in Writing /\ req.kind # "deleteJurisdiction")
                 => req.payload = SessionPayload(req.kind, req.agentSession,
                                                 Head(req.updates).count)
             /\ (req.pc = "apply" /\ sess'.reqs[r].pc # "apply")
                 => IF ~Storable(req.payload)
                    THEN sess'.sessions = sess.sessions
                    ELSE IF req.existing
                    THEN \A s \in getAgentSession(sess'.sessions,
                                                  req.payload.agentId) :
                             s = Row(req.payload)
                    ELSE sess'.sessions = Append(sess.sessions,
                                                 Row(req.payload))]_vars

\* two POST /api/documents requests for the same jurisdiction have both been
\* answered, two documents are stored, and the session counts one: both
\* serial orders of the two requests give two
C23_Witness ==
    /\ sess.seed.sessions
          = <<Session(Eu, "idle", 0), Session(Constructor, "active", 0)>>
    /\ \A r \in 1..MaxReq :
          /\ sess.reqs[r].kind = "create"
          /\ sess.reqs[r].jurisdiction = Eu
          /\ sess.reqs[r].pc = "done"
          /\ sess.reqs[r].code = 200
          /\ sess.reqs[r].agentSession.documentsCount = 0
    /\ Len(getDocumentsByJurisdiction(sess.documents, Eu)) = 2
    /\ sess.sessions[1] = Session(Eu, "active", 1)
    /\ sess.sessions[1].documentsCount # sess.seed.sessions[1].documentsCount + 2

\* C24: after any sequence of ingestion and deletion requests every
\* session has a status among active, idle and updating.
C24_StatusInRange ==
    \A i \in 1..Len(sess.sessions) :
        sess.sessions[i].status \in {"active", "idle", "updating"}

\* C28: started from sessions with equal non-negative counters, or from
\* none, every session has documentsCount = embeddingsCount >= 0 whatever
\* the sequence and interleaving of the create, upload, bulk, sync,
\* delete-by-id and delete-by-jurisdiction requests.
C28_CountersEqualNonNegative ==
    \A i \in 1..Len(sess.sessions) :
        /\ sess.sessions[i].documentsCount = sess.sessions[i].embeddingsCount
        /\ sess.sessions[i].documentsCount >= 0

\* a delete-by-id request and a bulk request on the same jurisdiction have
\* interleaved and have both rewritten the session, the delete last
C28_Witness ==
    /\ \E r, q \in 1..MaxReq :
          /\ sess.reqs[r].kind = "deleteId"
          /\ sess.reqs[r].pc = "done"
          /\ Row(sess.reqs[r].payload) = Session(Eu, "active", 1)
          /\ sess.reqs[q].kind = "bulk"
          /\ sess.reqs[q].pc = "done"
          /\ Row(sess.reqs[q].payload) = Session(Eu, "active", 3)
    /\ sess.sessions = <<Session(Eu, "active", 1), Session(Uk, "active", 1)>>

\* the positions of the fulfilled agents, ascending
FulfilledAt ==
    SelectSeq([i \in 1..Len(agents) |-> i],
              LAMBDA i : agents[i].status = "fulfilled")

\* C26: the responses queryJurisdictionAgents returns are those of the
\* fulfilled agents in the order of the selected jurisdictions, whatever the
\* order in which the agents completed; every agentId is a selected id, and
\* a jurisdiction selected once has at most one response.
C26_ResponsesInSelectedOrder ==
    DispatchReturned =>
        LET selected == routing.selectedJurisdictions
        IN /\ Len(responses) = Len(FulfilledAt)
           /\ \A k \in 1..Len(responses) :
                 /\ responses[k].agentId = selected[FulfilledAt[k]]
                 /\ responses[k].content = agents[FulfilledAt[k]].content
                 /\ responses[k].agentId \in Range(selected)
           /\ \A j \in Range(selected) :
                 Cardinality({i \in 1..Len(selected) : selected[i] = j}) = 1
                 => Cardinality({k \in 1..Len(responses) :
                                   responses[k].agentId = j}) <= 1

\* uk and eu were selected in this order, the eu agent completed while the
\* uk agent was still pending, and the responses are uk's then eu's
C26_Witness ==
    /\ DispatchReturned
    /\ routing.selectedJurisdictions = <<"uk", "eu">>
    /\ agents[1].status = "fulfilled"
    /\ agents[2].status = "fulfilled"
    /\ agents[2].overtook
    /\ Len(responses) = 2
    /\ responses[1].agentId = "uk"
    /\ responses[2].agentId = "eu"

\* C30: in every result routingInfo is the decision routeQuery returned
\* (selectedJurisdictions, rationale and autoRouted), so autoRouted is true
\* only when the classifier was called, on the clarification path and for a
\* request that names jurisdictions as well.
C30_RoutingInfoIsDecision ==
    pc = "done" =>
        /\ result.routingInfo = routing
        /\ result.routingInfo.autoRouted => calls.classifier > 0

\* the messages a query has stored, in the order of the table, without
\* their ids
StoredBy(r) ==
    LET rows == SelectSeq(conv.messages, LAMBDA m : m.by = r)
    IN [k \in 1..Len(rows) |->
           [conversationId |-> rows[k].conversationId, role |-> rows[k].role,
            content |-> rows[k].content, agentId |-> rows[k].agentId,
            metadata |-> rows[k].metadata]]

IsPrefix(s, t) == Len(s) <= Len(t) /\ s = SubSeq(t, 1, Len(s))

UserMessage(req) ==
    [conversationId |-> req.conversationId, role |-> "user",
     content |-> req.message, agentId |-> "", metadata |-> "none"]

\* the messages of a query whose orchestrator returned: the user message,
\* one assistant message per response in the order of the responses, and
\* the master summary message when there is a summary to store
QueryMessages(req, summary) ==
    <<UserMessage(req)>>
    \o [k \in 1..Len(req.outcome.responses) |->
           [conversationId |-> req.conversationId, role |-> "assistant",
            content |-> req.outcome.responses[k].content,
            agentId |-> req.outcome.responses[k].agentId,
            metadata |-> "sources"]]
    \o (IF summary
        THEN <<[conversationId |-> req.conversationId, role |-> "assistant",
                content |-> req.outcome.masterSummary[1],
                agentId |-> "master", metadata |-> "summary"]>>
        ELSE <<>>)

\* the order of the messages of query r, given whether its result has a
\* summary to store
OrderedPerQuery(r, summary) ==
    LET req == conv.reqs[r]
        stored == StoredBy(r)
    IN /\ IsPrefix(stored, QueryMessages(req, summary))
       /\ ~req.returned => Len(stored) <= 1
       /\ stored # <<>> =>
             \/ req.created = 0 /\ req.has /\ req.conversationId # 0
             \/ /\ req.created # 0
                /\ req.conversationId = req.created
                /\ \E i \in 1..Len(conv.conversations) :
                      conv.conversations[i].id = req.created
       /\ (req.pc = "done" /\ req.code = 200) =>
             stored = QueryMessages(req, summary)

\* nothing but an append at the end happens to the messages table
AppendOnly ==
    /\ IsPrefix(conv.messages, conv'.messages)
    /\ Len(conv'.messages) <= Len(conv.messages) + 1
    /\ IsPrefix(conv.conversations, conv'.conversations)

\* C25 (as stated): ... followed by the master summary message whenever the
\* result has a summary.
C25_SummaryStoredWhenDefined ==
    \A r \in 1..MaxQueries :
        OrderedPerQuery(r, conv.reqs[r].outcome.masterSummary # Undefined)

\* C25: messages are append-only and ordered per query: a query without
\* conversationId first creates a conversation, then its user message is
\* stored, and only after the orchestrator returned are the assistant
\* messages stored, one per response in the order of the responses array,
\* followed by the master summary message (agentId "master") when the
\* summary is a non-empty string; no stored message is modified or removed.
C25_AppendOnlyOrderedPerQuery ==
    /\ [](\A r \in 1..MaxQueries :
            OrderedPerQuery(r, conv.reqs[r].outcome.masterSummary
                                   \notin {Undefined, Some("")}))
    /\ [][AppendOnly]_vars

\* two queries on one conversation interleaved: the first created it and
\* stored its user message, two answers and the summary; the second, whose
\* summary is the empty string, stored its user message and two answers
C25_Witness ==
    /\ Len(conv.conversations) = 1
    /\ conv.reqs[1].created = 1
    /\ conv.reqs[1].pc = "done" /\ conv.reqs[1].code = 200
    /\ conv.reqs[1].outcome.masterSummary = Some("text")
    /\ Len(StoredBy(1)) = 4
    /\ StoredBy(1)[4].agentId = "master"
    /\ conv.reqs[2].pc = "done" /\ conv.reqs[2].code = 200
    /\ conv.reqs[2].conversationId = 1
    /\ conv.reqs[2].outcome.masterSummary = Some("")
    /\ Len(StoredBy(2)) = 3
    /\ conv.messages[2].by = 2
    /\ conv.messages[Len(conv.messages)].by = 1

\* C29: a query whose orchestrator call throws is not rolled back: the
\* conversation created for it and its user message stay stored, it has
\* no assistant message, and it is answered with an error.
C29_FailedQueryNotRolledBack ==
    \A r \in 1..MaxQueries :
        LET req == conv.reqs[r]
        IN (req.pc = "done" /\ req.returned /\ req.outcome.threw) =>
              /\ req.code = 500
              /\ StoredBy(r) = <<UserMessage(req)>>
              /\ req.created # 0 =>
                    \E i \in 1..Len(conv.conversations) :
                        /\ conv.conversations[i].id = req.created
                        /\ conv.conversations[i].title =
                              SubSeq(req.message, 1, Smaller(50, Len(req.message)))
                              \o <<".", ".", ".">>

\* the first query created conversation 1 and failed in the orchestrator;
\* a later query on conversation 1 was answered: the table holds the user
\* message of the failed query, then the messages of the second
C29_Witness ==
    /\ conv.reqs[1].pc = "done" /\ conv.reqs[1].outcome.threw
    /\ conv.reqs[1].created = 1 /\ conv.reqs[1].code = 500
    /\ Len(conv.conversations) = 1
    /\ conv.messages[1].by = 1 /\ conv.messages[1].role = "user"
    /\ conv.reqs[2].pc = "done" /\ conv.reqs[2].code = 200
    /\ conv.reqs[2].conversationId = 1
    /\ Len(conv.messages) = 3
    /\ conv.messages[3].role = "assistant" /\ conv.messages[3].by = 2

====
